---- MODULE Spec2Model ----
(***************************************************************************)
(* State-machine model of the tool layer of deobfuscate-mcp-server         *)
(* (src/src/tools.ts): the single-slot module cache state.lastBundle and   *)
(* the handlers that replace it (deobfuscate) or query it.                 *)
(*                                                                         *)
(* A source text is a sequence of lexical chunks; Raw(text) is the string  *)
(* itself, character by character.  String operations of the code          *)
(* (includes, RegExp.test, slice) work on Raw texts, the parser on chunks. *)
(***************************************************************************)
EXTENDS Integers, Sequences, FiniteSets, TLC

VARIABLES lastBundle, last, seen, inflight

vars == <<lastBundle, last, seen, inflight>>

----------------------------------------------------------------------------
(* Bounds of the model *)

\* the unpack result's bundle holds at most this many modules
MaxModules == 1

\* the limit argument of the listing tools ranges over -1 .. MaxLimit
MaxLimit == 2

\* deobfuscate calls started in one run of the interleaved specification
MaxCalls == 2

\* a module path of the classifier runs holds at most this many chunks
MaxPathLen == 3

----------------------------------------------------------------------------
(* Generic sequence helpers (JavaScript string/array primitives) *)

\* String.prototype.includes / Array slice containment: needle occurs in hay
Includes(hay, needle) ==
    \E i \in 0..(Len(hay) - Len(needle)) :
        \A k \in 1..Len(needle) : hay[i + k] = needle[k]

\* Array.prototype.slice(0, n): a negative n counts from the end
Slice0(s, n) ==
    LET stop == IF n < 0 THEN (IF Len(s) + n < 0 THEN 0 ELSE Len(s) + n)
                ELSE (IF n > Len(s) THEN Len(s) ELSE n)
    IN  SubSeq(s, 1, stop)

RECURSIVE Concat(_)
Concat(ss) == IF ss = <<>> THEN <<>> ELSE Head(ss) \o Concat(Tail(ss))

----------------------------------------------------------------------------
(* Source texts *)

\* identifiers that occur in the modelled texts
Names == {"a", "A"}

\* identifiers the parser knows: the names and one more
Identifiers == Names \cup {"b"}

\* the characters of each lexical chunk
TokenChars(tok) ==
    CASE tok = "function " -> <<"f", "u", "n", "c", "t", "i", "o", "n", " ">>
      [] tok = "function"  -> <<"f", "u", "n", "c", "t", "i", "o", "n">>
      [] tok = "export default function" ->
            <<"e", "x", "p", "o", "r", "t", " ", "d", "e", "f", "a", "u", "l", "t", " ",
              "f", "u", "n", "c", "t", "i", "o", "n">>
      [] tok = "class "    -> <<"c", "l", "a", "s", "s", " ">>
      [] tok = "class{}"   -> <<"c", "l", "a", "s", "s", "{", "}">>
      [] tok = "const "    -> <<"c", "o", "n", "s", "t", " ">>
      [] tok = "this"      -> <<"t", "h", "i", "s">>
      [] tok = "(){"       -> <<"(", ")", "{">>
      [] tok = "();"       -> <<"(", ")", ";">>
      [] tok = "()=>{"     -> <<"(", ")", "=", ">", "{">>
      [] tok = ")=>{"      -> <<")", "=", ">", "{">>
      [] tok = "){"        -> <<")", "{">>
      [] tok = "=1"        -> <<"=", "1">>
      [] tok = "..."       -> <<".", ".", ".">>
      [] tok = "{x}"       -> <<"{", "x", "}">>
      [] tok = "{a}"       -> <<"{", "a", "}">>
      [] tok = ");"        -> <<")", ";">>
      [] tok = "[x]"       -> <<"[", "x", "]">>
      [] tok = "[0]"       -> <<"[", "0", "]">>
      [] OTHER             -> <<tok>>

\* the string a text stands for, one character per element
RECURSIVE Raw(_)
Raw(text) == IF text = <<>> THEN <<>> ELSE TokenChars(Head(text)) \o Raw(Tail(text))

EmptyText == <<>>
\* a();
CallText == <<"a", "();">>
\* function a(){A();}
FunText == <<"function ", "a", "(){", "A", "();", "}">>
\* }   (a syntax error)
BadText == <<"}">>
\* a();}   (a syntax error after a call of a)
BrokenText == <<"a", "();", "}">>

\* function a(b,A=1){}const A=({x},[x],...b)=>{};class b{}
ShapesText ==
    <<"function ", "a", "(", "b", ",", "A", "=1", "){", "}",
      "const ", "A", "=", "(", "{x}", ",", "[x]", ",", "...", "b", ")=>{", "}", ";",
      "class ", "b", "{", "}">>
\* export default function(){}const a=1;const A=class{};a();class b{A(){a();}}
OthersText ==
    <<"export default function", "(){", "}",
      "const ", "a", "=", "1", ";",
      "const ", "A", "=", "class{}", ";",
      "a", "();",
      "class ", "b", "{", "A", "(){", "a", "();", "}", "}">>
\* const a=function({x}=1,...[x]){A();};
FunExprText ==
    <<"const ", "a", "=", "function", "(", "{x}", "=1", ",", "...", "[x]", "){",
      "A", "();", "}", ";">>
\* function A(){function a(){A();}}function b(){function a(){b();}}a();
TwinsText ==
    <<"function ", "A", "(){", "function ", "a", "(){", "A", "();", "}", "}",
      "function ", "b", "(){", "function ", "a", "(){", "b", "();", "}", "}",
      "a", "();">>
\* function a(){A();A.b();this.b();A.b.a();A[0]();}
CalleesText ==
    <<"function ", "a", "(){",
      "A", "();", "A", ".", "b", "();", "this", ".", "b", "();",
      "A", ".", "b", ".", "a", "();", "A", "[0]", "();", "}">>
\* function A(){const b=()=>{a();};function a(){a();}}a();
CallersText ==
    <<"function ", "A", "(){",
      "const ", "b", "=", "()=>{", "a", "();", "}", ";",
      "function ", "a", "(){", "a", "();", "}", "}",
      "a", "();">>

\* A(()=>{a();});a();
CallbackText == <<"A", "(", "()=>{", "a", "();", "}", ");", "a", "();">>
\* export default function(){a();}const A={b(){a();}};
UnnamedText ==
    <<"export default function", "(){", "a", "();", "}",
      "const ", "A", "=", "{", "b", "(){", "a", "();", "}", "}", ";">>

\* function a(){A();A();
\* A();}
LinesText ==
    <<"function ", "a", "(){", "A", "();", "A", "();", "\n", "A", "();", "}">>

\* const {a}=1;const A=1,b=()=>{A();};
DeclsText ==
    <<"const ", "{a}", "=", "1", ";",
      "const ", "A", "=", "1", ",", "b", "=", "()=>{", "A", "();", "}", ";">>

\* texts a caller hands to deobfuscate inline or keeps in a file
SourceTexts == {EmptyText, FunText}
\* texts a caller hands to the analysis tools inline
CodeArgs == {EmptyText, FunText, BadText}
\* main code returned by the unpack transform
EntryTexts == {EmptyText, CallText, FunText, BadText}
\* code of a module of an unpacked bundle
ModuleTexts == {CallText, FunText}
\* code of the units of the snapshots the scanning tools are run on
ScanTexts ==
    {CallText, BadText, BrokenText, ShapesText, OthersText, FunExprText, TwinsText,
     CalleesText, CallersText, CallbackText, UnnamedText,
     LinesText, DeclsText}

\* main code of these snapshots
ScanEntryTexts == {CallText, BrokenText, CalleesText}

----------------------------------------------------------------------------
(* @babel/parser: parser.parse(code, BABEL_PARSER_OPTIONS) *)

\* the chunk at position i, "" past the end of the text
At(toks, i) == IF i >= 1 /\ i <= Len(toks) THEN toks[i] ELSE ""

\* the callee of a node that is not a call
NoCallee == [kind |-> "", name |-> "", object |-> "", property |-> "", text |-> <<>>]

\* the line a chunk is on: lines are counted from 1
LineOf(toks, i) == 1 + Cardinality({k \in 1..(i - 1) : At(toks, k) = "\n"})

\* A node of the tree.  name: the identifier a declaration binds or a method
\* is keyed by ("" for a function declaration without id and for a declarator
\* of a pattern); init: the kind of a declarator's initializer, or of the
\* callback a call is given; callee: of a call expression; body: the
\* statements (methods, for a class or an object) below the node;
\* [start, end]: its chunks; stmt: the chunk the declaration statement of a
\* declarator starts at, else 0; sep: what follows a declarator; line,
\* endLine: loc.start.line, loc.end.line.
Node(toks, head, body, start, end, stmt) ==
    [type |-> head.type, name |-> head.name, params |-> head.params,
     init |-> head.init, callee |-> head.callee, body |-> body,
     start |-> start, end |-> end, stmt |-> stmt,
     sep |-> IF head.type = "VariableDeclarator" THEN At(toks, end + 1) ELSE "",
     line |-> LineOf(toks, start), endLine |-> LineOf(toks, end)]

ParseError == [ok |-> FALSE, nodes |-> <<>>, next |-> 0]

NoParams == [ok |-> FALSE, params |-> <<>>, next |-> 0]

NoParam == [ok |-> FALSE, param |-> [kind |-> "", ident |-> FALSE, name |-> ""], next |-> 0]

Param(kind, ident, name, next) ==
    [ok |-> TRUE, param |-> [kind |-> kind, ident |-> ident, name |-> name], next |-> next]

\* One parameter at chunk i.  ident: the parameter (the left side of a
\* default, the argument of a rest element) is a plain identifier.
ParseParam(toks, i) ==
    IF At(toks, i) \in Identifiers
    THEN IF At(toks, i + 1) = "=1"
         THEN Param("AssignmentPattern", TRUE, toks[i], i + 2)
         ELSE Param("Identifier", TRUE, toks[i], i + 1)
    ELSE IF At(toks, i) \in {"{x}", "[x]"}
    THEN IF At(toks, i + 1) = "=1"
         THEN Param("AssignmentPattern", FALSE, "", i + 2)
         ELSE Param(IF toks[i] = "{x}" THEN "ObjectPattern" ELSE "ArrayPattern",
                    FALSE, "", i + 1)
    ELSE IF At(toks, i) = "..."
    THEN IF At(toks, i + 1) \in Identifiers
         THEN Param("RestElement", TRUE, toks[i + 1], i + 2)
         ELSE IF At(toks, i + 1) \in {"{x}", "[x]"}
         THEN Param("RestElement", FALSE, "", i + 2)
         ELSE NoParam
    ELSE NoParam

\* the parameters from chunk i up to the closing chunk; a rest element is last
RECURSIVE ParseParamList(_, _, _)
ParseParamList(toks, i, closer) ==
    LET p == ParseParam(toks, i)
    IN  IF ~p.ok THEN NoParams
        ELSE IF At(toks, p.next) = closer
        THEN [ok |-> TRUE, params |-> <<p.param>>, next |-> p.next + 1]
        ELSE IF At(toks, p.next) = "," /\ p.param.kind # "RestElement"
        THEN LET rest == ParseParamList(toks, p.next + 1, closer)
             IN  IF rest.ok
                 THEN [ok |-> TRUE, params |-> <<p.param>> \o rest.params,
                       next |-> rest.next]
                 ELSE NoParams
        ELSE NoParams

\* parameter list and opening brace of a function, or of an arrow function
ParseHeader(toks, i, arrow) ==
    IF At(toks, i) = (IF arrow THEN "()=>{" ELSE "(){")
    THEN [ok |-> TRUE, params |-> <<>>, next |-> i + 1]
    ELSE IF At(toks, i) = "("
    THEN ParseParamList(toks, i + 1, IF arrow THEN ")=>{" ELSE "){")
    ELSE NoParams

NoCalleeAt == [ok |-> FALSE, callee |-> NoCallee, next |-> 0]

Callee(toks, i, kind, name, object, property, next) ==
    [ok |-> TRUE,
     callee |-> [kind |-> kind, name |-> name, object |-> object,
                 property |-> property, text |-> SubSeq(toks, i, next - 1)],
     next |-> next]

\* The callee at chunk i: x, x.y, this.y, x.y.z or x[0].  object: the object
\* of a member expression when it is a plain identifier, else ""; property:
\* its property when that is an identifier, else ""; text: its chunks.
ParseCallee(toks, i) ==
    IF At(toks, i) = "this" /\ At(toks, i + 1) = "." /\ At(toks, i + 2) \in Identifiers
    THEN Callee(toks, i, "MemberExpression", "", "", toks[i + 2], i + 3)
    ELSE IF At(toks, i) \in Identifiers
    THEN IF At(toks, i + 1) = "." /\ At(toks, i + 2) \in Identifiers
         THEN IF At(toks, i + 3) = "." /\ At(toks, i + 4) \in Identifiers
              THEN Callee(toks, i, "MemberExpression", "", "", toks[i + 4], i + 5)
              ELSE Callee(toks, i, "MemberExpression", "", toks[i], toks[i + 2], i + 3)
         ELSE IF At(toks, i + 1) = "[0]"
         THEN Callee(toks, i, "MemberExpression", "", toks[i], "", i + 2)
         ELSE Callee(toks, i, "Identifier", toks[i], "", "", i + 1)
    ELSE NoCalleeAt

\* Where the parser is: in the program ("top"), a function body ("body"), a
\* class body ("class") or an object literal ("object"), the last two holding
\* methods only; stmt: the chunk the declaration statement it is inside of
\* starts at, 0 outside of one.
Top == [in |-> "top", stmt |-> 0]

Inside(in) == [in |-> in, stmt |-> 0]

\* What starts at a chunk: the node without its body.  bodyAt: the chunk its
\* body starts at, 0 for a node without body, whose last chunk is `end`;
\* bodyIn: what the body holds; closer: the chunk that follows the closing
\* brace as part of the node, "" for none.
NoHead ==
    [ok |-> FALSE, type |-> "", name |-> "", params |-> <<>>, init |-> "",
     callee |-> NoCallee, bodyAt |-> 0, bodyIn |-> "", end |-> 0, closer |-> ""]

\* a function-like node with header h
FunctionHead(type, name, init, callee, h, closer) ==
    [ok |-> h.ok, type |-> type, name |-> name, params |-> h.params, init |-> init,
     callee |-> callee, bodyAt |-> h.next, bodyIn |-> "body", end |-> 0,
     closer |-> closer]

\* a class or an object literal: braces around methods
MethodsHead(type, name, init, bodyAt, bodyIn) ==
    [ok |-> TRUE, type |-> type, name |-> name, params |-> <<>>,
     init |-> init, callee |-> NoCallee, bodyAt |-> bodyAt, bodyIn |-> bodyIn,
     end |-> 0, closer |-> ""]

\* a node without body
LeafHead(ok, type, name, init, callee, end) ==
    [ok |-> ok, type |-> type, name |-> name, params |-> <<>>, init |-> init,
     callee |-> callee, bodyAt |-> 0, bodyIn |-> "", end |-> end, closer |-> ""]

\* <callee>();  or  <callee>(<arrow function>);
CallHead(toks, c) ==
    IF c.ok /\ At(toks, c.next) = "("
    THEN FunctionHead("CallExpression", "", "ArrowFunctionExpression", c.callee,
                      ParseHeader(toks, c.next + 1, TRUE), ");")
    ELSE LeafHead(c.ok /\ At(toks, c.next) = "();", "CallExpression", "", "",
                  c.callee, c.next)

\* the identifier a declarator binds, "" when it binds a pattern
BoundName(tok) == IF tok \in Identifiers THEN tok ELSE ""

\* <id> = <init>  with a literal, a class expression, an object literal, a
\* function expression or an arrow function as initializer; id is an
\* identifier or the pattern {a}
DeclaratorHead(toks, i) ==
    IF ~(At(toks, i) \in Identifiers \cup {"{a}"} /\ At(toks, i + 1) = "=") THEN NoHead
    ELSE IF At(toks, i + 2) \in {"1", "class{}"}
    THEN LeafHead(TRUE, "VariableDeclarator", BoundName(toks[i]),
                  IF toks[i + 2] = "1" THEN "NumericLiteral" ELSE "ClassExpression",
                  NoCallee, i + 2)
    ELSE IF At(toks, i + 2) = "{"
    THEN MethodsHead("VariableDeclarator", BoundName(toks[i]), "ObjectExpression",
                     i + 3, "object")
    ELSE IF At(toks, i + 2) = "function"
    THEN FunctionHead("VariableDeclarator", BoundName(toks[i]), "FunctionExpression",
                      NoCallee, ParseHeader(toks, i + 3, FALSE), "")
    ELSE FunctionHead("VariableDeclarator", BoundName(toks[i]),
                      "ArrowFunctionExpression", NoCallee,
                      ParseHeader(toks, i + 2, TRUE), "")

HeadAt(toks, i, mode) ==
    IF mode.stmt # 0 THEN DeclaratorHead(toks, i)
    ELSE IF mode.in \in {"class", "object"}
    THEN IF At(toks, i) \in Identifiers
         THEN FunctionHead(IF mode.in = "class" THEN "ClassMethod" ELSE "ObjectMethod",
                           toks[i], "", NoCallee, ParseHeader(toks, i + 1, FALSE), "")
         ELSE NoHead
    ELSE IF At(toks, i) = "function " /\ At(toks, i + 1) \in Identifiers
    THEN FunctionHead("FunctionDeclaration", toks[i + 1], "", NoCallee,
                      ParseHeader(toks, i + 2, FALSE), "")
    ELSE IF At(toks, i) = "export default function" /\ mode.in = "top"
    THEN FunctionHead("FunctionDeclaration", "", "", NoCallee,
                      ParseHeader(toks, i + 1, FALSE), "")
    ELSE IF At(toks, i) = "class " /\ At(toks, i + 1) \in Identifiers
            /\ At(toks, i + 2) = "{"
    THEN MethodsHead("ClassDeclaration", toks[i + 1], "", i + 3, "class")
    ELSE CallHead(toks, ParseCallee(toks, i))

RECURSIVE ParseBlock(_, _, _)

\* the node of head from chunk i to chunk end, followed by the rest of its
\* block
Finish(toks, head, body, i, end, mode, rest) ==
    [ok |-> rest.ok,
     nodes |-> <<Node(toks, head, body, i, end, mode.stmt)>> \o rest.nodes,
     next |-> rest.next]

\* a declarator is followed by a comma and the next declarator of its
\* statement, or by the semicolon that ends the statement
SeparatorOk(toks, head, end) ==
    head.type = "VariableDeclarator" => At(toks, end + 1) \in {";", ","}

NextAt(head, end) == IF head.type = "VariableDeclarator" THEN end + 2 ELSE end + 1

NextMode(toks, head, end, mode) ==
    IF head.type = "VariableDeclarator" /\ At(toks, end + 1) = "," THEN mode
    ELSE [mode EXCEPT !.stmt = 0]

AfterNode(toks, i, mode, head, body, end) ==
    IF ~SeparatorOk(toks, head, end) THEN ParseError
    ELSE Finish(toks, head, body, i, end, mode,
                ParseBlock(toks, NextAt(head, end), NextMode(toks, head, end, mode)))

\* the last chunk of a node whose body block ended at the closing brace
EndOf(head, body) == IF head.closer = "" THEN body.next ELSE body.next + 1

AfterBody(toks, i, mode, head, body) ==
    IF ~body.ok \/ (head.closer # "" /\ At(toks, body.next + 1) # head.closer)
    THEN ParseError
    ELSE AfterNode(toks, i, mode, head, body.nodes, EndOf(head, body))

AfterHead(toks, i, mode, head) ==
    IF ~head.ok THEN ParseError
    ELSE IF head.bodyAt = 0 THEN AfterNode(toks, i, mode, head, <<>>, head.end)
    ELSE AfterBody(toks, i, mode, head,
                   ParseBlock(toks, head.bodyAt, Inside(head.bodyIn)))

\* The statements (methods, in a class or an object) from chunk i on: to the
\* end of the text for the program, to the closing brace otherwise.  Line
\* breaks stand between statements; `const ` opens a declaration statement.
ParseBlock(toks, i, mode) ==
    IF i > Len(toks) THEN [ok |-> mode = Top, nodes |-> <<>>, next |-> i]
    ELSE IF mode.stmt # 0 THEN AfterHead(toks, i, mode, HeadAt(toks, i, mode))
    ELSE IF toks[i] = "}" THEN [ok |-> mode.in # "top", nodes |-> <<>>, next |-> i]
    ELSE IF toks[i] = "\n" THEN ParseBlock(toks, i + 1, mode)
    ELSE IF toks[i] = "const " /\ mode.in \in {"top", "body"}
    THEN ParseBlock(toks, i + 1, [mode EXCEPT !.stmt = i])
    ELSE AfterHead(toks, i, mode, HeadAt(toks, i, mode))

Parse(code) == ParseBlock(code, 1, Top)

Parses(code) == Parse(code).ok

\* what a path keeps of an ancestor
Ancestor(n) == [type |-> n.type, name |-> n.name, init |-> n.init]

\* traverse(ast, ...): the nodes in pre-order, each with its ancestors,
\* outermost first
RECURSIVE PreOrder(_, _)
PreOrder(nodes, ancestors) ==
    IF nodes = <<>> THEN <<>>
    ELSE LET n == Head(nodes)
         IN  <<[node |-> n, ancestors |-> ancestors]>>
             \o PreOrder(n.body, Append(ancestors, Ancestor(n)))
             \o PreOrder(Tail(nodes), ancestors)

----------------------------------------------------------------------------
(* prettier: format(code, PRETTIER_OPTIONS) *)

RECURSIVE Indent(_)
Indent(depth) == IF depth = 0 THEN <<>> ELSE <<"  ">> \o Indent(depth - 1)

\* one parameter as printed
ParamText(p) ==
    CASE p.kind = "Identifier" -> <<p.name>>
      [] p.kind = "AssignmentPattern" ->
            (IF p.ident THEN <<p.name>> ELSE <<"{ x }">>) \o <<" = 1">>
      [] p.kind = "RestElement" ->
            <<"...">> \o (IF p.ident THEN <<p.name>> ELSE <<"[x]">>)
      [] p.kind = "ObjectPattern" -> <<"{ x }">>
      [] OTHER -> <<"[x]">>

RECURSIVE ParamsText(_)
ParamsText(params) ==
    IF params = <<>> THEN <<>>
    ELSE IF Len(params) = 1 THEN ParamText(params[1])
    ELSE ParamText(params[1]) \o <<", ">> \o ParamsText(Tail(params))

\* a callee as printed
CalleeText(c) == c.text

\* a declarator up to its initializer: the keyword comes with the first
\* declarator of a statement
Binding(n) ==
    (IF n.start = n.stmt + 1 THEN <<"const ">> ELSE <<>>)
    \o <<IF n.name = "" THEN "{ a }" ELSE n.name, " = ">>

\* what follows a declarator
Separator(n) == IF n.sep = "," THEN <<",">> ELSE <<";">>

\* what comes before the parameter list of a node with a body
HeadText(n) ==
    CASE n.type = "FunctionDeclaration" ->
            IF n.name = "" THEN <<"export default function (">>
            ELSE <<"function ", n.name, "(">>
      [] n.type \in {"ClassMethod", "ObjectMethod"} -> <<n.name, "(">>
      [] n.type = "ClassDeclaration" -> <<"class ", n.name>>
      [] n.type = "CallExpression" -> CalleeText(n.callee) \o <<"(", "(">>
      [] n.init = "FunctionExpression" -> Binding(n) \o <<"function (">>
      [] n.init = "ObjectExpression" -> Binding(n)
      [] OTHER -> Binding(n) \o <<"(">>

\* what comes between the parameter list and the body, and after the body
OpenText(n) ==
    CASE n.type = "ClassDeclaration" -> <<" {">>
      [] n.init = "ObjectExpression" -> <<"{">>
      [] n.init = "ArrowFunctionExpression" -> <<") => {">>
      [] OTHER -> <<") {">>

CloseText(n) ==
    CASE n.type = "VariableDeclarator" -> <<"}">> \o Separator(n)
      [] n.type = "CallExpression" -> <<"});">>
      [] n.type = "ObjectMethod" -> <<"},">>
      [] OTHER -> <<"}">>

\* the later declarators of a statement are indented under the first
DepthOf(n, depth) ==
    IF n.type = "VariableDeclarator" /\ n.start # n.stmt + 1 THEN depth + 1 ELSE depth

RECURSIVE Pretty(_, _)
Pretty(nodes, depth) ==
    IF nodes = <<>> THEN <<>>
    ELSE LET n == Head(nodes)
             d == DepthOf(n, depth)
             one == IF n.type = "CallExpression" /\ n.init = ""
                    THEN Indent(d) \o CalleeText(n.callee) \o <<"();", "\n">>
                    ELSE IF n.init \in {"NumericLiteral", "ClassExpression"}
                    THEN Indent(d) \o Binding(n)
                         \o (IF n.init = "NumericLiteral" THEN <<"1">>
                             ELSE <<"class {}">>)
                         \o Separator(n) \o <<"\n">>
                    ELSE IF n.body = <<>>
                    THEN Indent(d) \o HeadText(n) \o ParamsText(n.params)
                         \o OpenText(n) \o CloseText(n) \o <<"\n">>
                    ELSE Indent(d) \o HeadText(n) \o ParamsText(n.params)
                         \o OpenText(n) \o <<"\n">>
                         \o Pretty(n.body, d + 1)
                         \o Indent(d) \o CloseText(n) \o <<"\n">>
         IN  one \o Pretty(Tail(nodes), depth)

\* formatJS: the formatted text, or the formatter's syntax error
FormatJS(code) ==
    IF Parses(code)
    THEN [kind |-> "ok", value |-> Pretty(Parse(code).nodes, 0)]
    ELSE [kind |-> "FormatFailure", value |-> <<>>]

----------------------------------------------------------------------------
(* Module paths and the vendor test *)

AppPath == <<"src", "/", "app.js">>
VendorPath == <<"node_modules", "/", "x">>
EntryPath == <<"Main Entry Point">>
ModulePaths == {AppPath, VendorPath}

vendorPatterns ==
    { <<"node_modules">>, <<"webpack", "/", "runtime">>,
      <<"webpack", "/", "bootstrap">>, <<"(webpack)">>, <<"vendor", "/">>,
      <<"bower_components">>, <<"jspm_packages">>, <<"shims", "/">> }

\* the pieces module paths are made of: the words of the vendor patterns,
\* a capitalised and a neutral word, and the two separators
PathChunks ==
    {"node_modules", "webpack", "runtime", "bootstrap", "(webpack)", "vendor",
     "bower_components", "jspm_packages", "shims", "Vendor", "src", "/", "\\"}

\* every path of at most MaxPathLen chunks, the empty path included
ClassifierPaths == UNION {[1..k -> PathChunks] : k \in 0..MaxPathLen}

\* (mutant) the separators are left as they are
NormalizedAsIs(path) == path

\* path.replace(/\\/g, "/")
Normalized(path) == [i \in 1..Len(path) |-> IF path[i] = "\\" THEN "/" ELSE path[i]]

IsVendorModule(path) ==
    IF path = <<>> THEN FALSE
    ELSE \E pattern \in vendorPatterns : Includes(Normalized(path), pattern)

----------------------------------------------------------------------------
(* The cache: state.lastBundle = null | { modules: Map<id, module> } *)

\* A Map is the sequence of its values in insertion order; keys are the ids.
NoBundle == [live |-> FALSE, modules |-> <<>>]

EntryId == "(entry)"
ModuleIds == {"1", "2"}

Ids(modules) == {modules[i].id : i \in 1..Len(modules)}

\* Map.prototype.has
Has(modules, id) == id \in Ids(modules)

\* Map.prototype.get, for a key the map holds
Get(modules, id) == modules[CHOOSE i \in 1..Len(modules) : modules[i].id = id]

\* Map.prototype.set: an existing key keeps its place, a new one goes last
MapSet(modules, unit) ==
    IF Has(modules, unit.id)
    THEN [i \in 1..Len(modules) |->
             IF modules[i].id = unit.id THEN unit ELSE modules[i]]
    ELSE Append(modules, unit)

----------------------------------------------------------------------------
(* External collaborators: fs readFile and webcrack *)

\* the filePath argument together with what readFile returns for it
NoFile == [path |-> "", ok |-> TRUE, text |-> <<>>]
FileArgs ==
    {NoFile}
    \cup [path : {"in.js"}, ok : {FALSE}, text : {<<>>}]
    \cup [path : {"in.js"}, ok : {TRUE}, text : SourceTexts]

Units == [id : ModuleIds, path : ModulePaths, code : ModuleTexts]

\* result.bundle.modules: at most MaxModules modules with distinct ids
Bundles ==
    {b \in UNION {[1..k -> Units] : k \in 0..MaxModules} :
        \A i, j \in 1..Len(b) : b[i].id = b[j].id => i = j}

WebcrackFailure == [ok |-> FALSE, code |-> <<>>, hasBundle |-> FALSE, modules |-> <<>>]

\* what webcrack(sourceCode, {unpack, mangle, jsx}) may return: a bundle is
\* found only when unpacking is asked for
WebcrackResults(unbundle) ==
    {WebcrackFailure}
    \cup [ok : {TRUE}, code : EntryTexts, hasBundle : {FALSE}, modules : {<<>>}]
    \cup (IF unbundle
          THEN [ok : {TRUE}, code : EntryTexts, hasBundle : {TRUE}, modules : Bundles]
          ELSE {})

----------------------------------------------------------------------------
(* Outcomes of a call *)

Ok(value) == [kind |-> "ok", value |-> value]
Err(kind) == [kind |-> kind, value |-> <<>>]

NoArgs == [none |-> TRUE]
NoExt == [none |-> TRUE]

\* `last` is the call being answered: its tool, arguments, what the external
\* collaborators returned to it, and its outcome; Idle between requests
Idle == [op |-> "idle", args |-> NoArgs, ext |-> NoExt, out |-> Ok(<<>>)]

----------------------------------------------------------------------------
(* deobfuscate *)

NotVendor(m) == ~IsVendorModule(m.path)

EntryUnit(code) == [id |-> EntryId, path |-> EntryPath, code |-> code]

\* the modules map built from the unpack result
\* (mutant) skipVendor leaves the vendor units in the map
BuildModulesKeepVendor(wc, skipVendor) ==
    MapSet(IF wc.hasBundle THEN wc.modules ELSE <<>>, EntryUnit(wc.code))

\* (mutant) the entry unit is stored only when no bundle was found
BuildModulesEntryFallback(wc, skipVendor) ==
    LET modules0 == IF wc.hasBundle THEN wc.modules ELSE <<>>
        kept == IF skipVendor /\ wc.hasBundle
                THEN SelectSeq(modules0, NotVendor) ELSE modules0
    IN  IF wc.hasBundle THEN kept ELSE MapSet(kept, EntryUnit(wc.code))

BuildModules(wc, skipVendor) ==
    LET modules0 == IF wc.hasBundle THEN wc.modules ELSE <<>>
        kept == IF skipVendor /\ wc.hasBundle
                THEN SelectSeq(modules0, NotVendor) ELSE modules0
    IN  MapSet(kept, EntryUnit(wc.code))

RemovedCount(wc, skipVendor) ==
    IF skipVendor /\ wc.hasBundle
    THEN Len(wc.modules) - Len(SelectSeq(wc.modules, NotVendor)) ELSE 0

\* the returned text when returnCode is set
ResponseText(wc) ==
    LET f == FormatJS(wc.code)
    IN  IF f.kind # "ok" THEN f
        ELSE IF wc.hasBundle
        THEN Ok(<<"// Unbundled ", Len(wc.modules), " modules.", "\n">> \o f.value)
        ELSE f

\* every unit of news put into modules with Map.prototype.set
RECURSIVE SetAll(_, _)
SetAll(modules, news) ==
    IF news = <<>> THEN modules
    ELSE SetAll(MapSet(modules, Head(news)), Tail(news))

\* (mutant) the new units are merged into the map already cached
InstallMerged(cache, modules) ==
    [live |-> TRUE, modules |-> SetAll(cache.modules, modules)]

\* state.lastBundle = { modules }
Install(cache, modules) == [live |-> TRUE, modules |-> modules]

\* [cache, out, unpacked]: the cache after the call, what the call returns
\* or throws, and whether webcrack was reached
DeobfuscateCall(cache, code, file, returnCode, skipVendor, wc) ==
    LET sourceCode == IF file.path # "" THEN file.text ELSE code
    IN  IF file.path # "" /\ ~file.ok
        THEN [cache |-> cache, out |-> Err("ReadFailure"), unpacked |-> FALSE]
        ELSE IF sourceCode = <<>>
        THEN [cache |-> cache, out |-> Err("MissingInput"), unpacked |-> FALSE]
        ELSE IF ~wc.ok
        THEN [cache |-> cache, out |-> Err("TransformFailure"), unpacked |-> TRUE]
        ELSE LET modules == BuildModules(wc, skipVendor)
                 installed == Install(cache, modules)
             IN  IF ~returnCode
                 THEN [cache |-> installed,
                       out |-> Ok([moduleCount |-> Len(modules),
                                   codeLength |-> Len(Raw(wc.code)),
                                   removedCount |-> RemovedCount(wc, skipVendor)]),
                       unpacked |-> TRUE]
                 ELSE [cache |-> installed, out |-> ResponseText(wc),
                       unpacked |-> TRUE]

Deobfuscate(code, unbundle, file, returnCode, skipVendor, wc) ==
    LET r == DeobfuscateCall(lastBundle, code, file, returnCode, skipVendor, wc)
    IN  /\ last = Idle
        /\ lastBundle' = r.cache
        /\ last' = [op |-> "deobfuscate",
                    args |-> [code |-> code, unbundle |-> unbundle, file |-> file,
                              returnCode |-> returnCode, skipVendor |-> skipVendor],
                    ext |-> [unpacked |-> r.unpacked,
                             result |-> IF r.unpacked THEN wc ELSE WebcrackFailure],
                    out |-> r.out]
        /\ UNCHANGED <<seen, inflight>>

----------------------------------------------------------------------------
(* listModules, getModule *)

\* the ids a caller may ask for: "" is the empty string
QueryIds == ModuleIds \cup {EntryId, ""}

\* an optional moduleId left out of the call
NoId == "(undefined)"

OptionalIds == QueryIds \cup {NoId}

\* if (moduleId): neither left out nor the empty string
Given(moduleId) == moduleId \notin {NoId, ""}

ModuleInfo(m) ==
    [id |-> m.id, path |-> m.path, size |-> Len(Raw(m.code)),
     isVendor |-> IsVendorModule(m.path)]

\* (mutant) excludeVendor is ignored
ListModulesCallUnfiltered(cache, excludeVendor) ==
    IF ~cache.live THEN Err("NoBundle")
    ELSE Ok([i \in 1..Len(cache.modules) |-> ModuleInfo(cache.modules[i])])

ListModulesCall(cache, excludeVendor) ==
    IF ~cache.live THEN Err("NoBundle")
    ELSE LET modules == IF excludeVendor
                        THEN SelectSeq(cache.modules, NotVendor)
                        ELSE cache.modules
         IN  Ok([i \in 1..Len(modules) |-> ModuleInfo(modules[i])])

\* (mutant) excludeVendor deletes the vendor units from the cached map
ListModulesInPlace(excludeVendor) ==
    /\ last = Idle
    /\ last' = [op |-> "listModules",
                args |-> [excludeVendor |-> excludeVendor],
                ext |-> NoExt,
                out |-> ListModulesCall(lastBundle, excludeVendor)]
    /\ lastBundle' = IF lastBundle.live /\ excludeVendor
                     THEN [lastBundle EXCEPT !.modules = SelectSeq(@, NotVendor)]
                     ELSE lastBundle
    /\ UNCHANGED <<seen, inflight>>

ListModules(excludeVendor) ==
    /\ last = Idle
    /\ last' = [op |-> "listModules",
                args |-> [excludeVendor |-> excludeVendor],
                ext |-> NoExt,
                out |-> ListModulesCall(lastBundle, excludeVendor)]
    /\ UNCHANGED <<lastBundle, seen, inflight>>

\* (mutant) the entry point is formatted whichever id is asked for
GetModuleCallEntry(cache, id) ==
    IF ~cache.live THEN Err("NoBundle")
    ELSE IF ~Has(cache.modules, id) THEN [kind |-> "UnitNotFound", value |-> id]
    ELSE FormatJS(Get(cache.modules, EntryId).code)

GetModuleCall(cache, id) ==
    IF ~cache.live THEN Err("NoBundle")
    ELSE IF ~Has(cache.modules, id) THEN [kind |-> "UnitNotFound", value |-> id]
    ELSE FormatJS(Get(cache.modules, id).code)

GetModule(id) ==
    /\ last = Idle
    /\ last' = [op |-> "getModule", args |-> [id |-> id], ext |-> NoExt,
                out |-> GetModuleCall(lastBundle, id)]
    /\ UNCHANGED <<lastBundle, seen, inflight>>

----------------------------------------------------------------------------
(* searchModules *)

\* query strings, character by character
Queries ==
    { <<>>, <<"a">>, <<"A">>, <<"a", "(">>, <<"a", ".">>, <<"}">>,
      Raw(CallText), Raw(FunText) }

Limits == (-1)..MaxLimit

\* new RegExp(query, "i") throws on unbalanced parentheses
RECURSIVE Balanced(_, _)
Balanced(q, depth) ==
    IF q = <<>> THEN depth = 0
    ELSE IF Head(q) = "(" THEN Balanced(Tail(q), depth + 1)
    ELSE IF Head(q) = ")" THEN depth > 0 /\ Balanced(Tail(q), depth - 1)
    ELSE Balanced(Tail(q), depth)

RegexCompiles(query) == Balanced(query, 0)

\* the pattern's atoms: a group without alternative or quantifier matches
\* what its content matches
Atoms(query) == SelectSeq(query, LAMBDA c : c \notin {"(", ")"})

\* the "i" flag: canonical case of a character
Canon(c) == IF c = "A" THEN "a" ELSE c

AtomMatches(atom, c) == atom = "." \/ Canon(atom) = Canon(c)

\* regex.test(text): some substring of text matches the atoms
RegexTest(query, text) ==
    LET atoms == Atoms(query)
    IN  \E i \in 0..(Len(text) - Len(atoms)) :
            \A k \in 1..Len(atoms) : AtomMatches(atoms[k], text[i + k])

\* (mutant) the query is used as a pattern in both modes
SearchMatchesAsRegex(m, query, isRegex) ==
    RegexTest(query, Raw(m.code))

SearchMatches(m, query, isRegex) ==
    IF isRegex THEN RegexTest(query, Raw(m.code))
    ELSE Includes(Raw(m.code), query)

\* modules.forEach(...): the matching modules in iteration order
RECURSIVE SearchResults(_, _, _)
SearchResults(modules, query, isRegex) ==
    IF modules = <<>> THEN <<>>
    ELSE (IF SearchMatches(Head(modules), query, isRegex)
          THEN <<[id |-> Head(modules).id, path |-> Head(modules).path]>>
          ELSE <<>>)
         \o SearchResults(Tail(modules), query, isRegex)

\* (mutant) the pattern is compiled before the cache is looked at
SearchModulesCallCompileFirst(cache, query, isRegex, limit) ==
    IF isRegex /\ ~RegexCompiles(query)
    THEN [out |-> [kind |-> "InvalidPattern", value |-> query], tested |-> 0]
    ELSE IF ~cache.live THEN [out |-> Err("NoBundle"), tested |-> 0]
    ELSE [out |-> Ok(Slice0(SearchResults(cache.modules, query, isRegex), limit)),
          tested |-> Len(cache.modules)]

\* (mutant) a pattern that does not compile is searched for literally
SearchModulesCallLiteralFallback(cache, query, isRegex, limit) ==
    IF ~cache.live THEN [out |-> Err("NoBundle"), tested |-> 0]
    ELSE LET asRegex == isRegex /\ RegexCompiles(query)
         IN  [out |-> Ok(Slice0(SearchResults(cache.modules, query, asRegex), limit)),
              tested |-> Len(cache.modules)]

\* [out, tested]: tested counts the modules whose code was tested
SearchModulesCall(cache, query, isRegex, limit) ==
    IF ~cache.live THEN [out |-> Err("NoBundle"), tested |-> 0]
    ELSE IF isRegex /\ ~RegexCompiles(query)
    THEN [out |-> [kind |-> "InvalidPattern", value |-> query], tested |-> 0]
    ELSE [out |-> Ok(Slice0(SearchResults(cache.modules, query, isRegex), limit)),
          tested |-> Len(cache.modules)]

SearchModules(query, isRegex, limit) ==
    LET r == SearchModulesCall(lastBundle, query, isRegex, limit)
    IN  /\ last = Idle
        /\ last' = [op |-> "searchModules",
                    args |-> [query |-> query, isRegex |-> isRegex, limit |-> limit],
                    ext |-> [tested |-> r.tested],
                    out |-> r.out]
        /\ UNCHANGED <<lastBundle, seen, inflight>>

----------------------------------------------------------------------------
(* listFunctions *)

\* (mutant) a default and a rest parameter render as the bare name
ParamNameBare(p) == IF p.ident THEN <<p.name>> ELSE <<"{destructured}">>

\* getParamNames: one rendered string per parameter
ParamName(p) ==
    IF p.kind = "Identifier" THEN <<p.name>>
    ELSE IF p.kind = "AssignmentPattern" /\ p.ident THEN <<p.name, "?">>
    ELSE IF p.kind = "RestElement" /\ p.ident THEN <<"...", p.name>>
    ELSE <<"{destructured}">>

GetParamNames(params) == [i \in 1..Len(params) |-> ParamName(params[i])]

\* params.join(", ")
RECURSIVE Join(_)
Join(strings) ==
    IF strings = <<>> THEN <<>>
    ELSE IF Len(strings) = 1 THEN strings[1]
    ELSE strings[1] \o <<", ">> \o Join(Tail(strings))

IsFunctionDeclaration(e) == e.node.type = "FunctionDeclaration"

IsClassDeclaration(e) == e.node.type = "ClassDeclaration"

IsVariableDeclarator(e) == e.node.type = "VariableDeclarator"

IsCallExpression(e) == e.node.type = "CallExpression"

\* t.isFunctionExpression(init) || t.isArrowFunctionExpression(init)
IsFunctionInit(n) == n.init \in {"FunctionExpression", "ArrowFunctionExpression"}

\* (mutant) every declarator and every class method is described too
DescribedAnyBinding(e) ==
    \/ IsFunctionDeclaration(e) /\ e.node.name # ""
    \/ IsClassDeclaration(e) /\ e.node.name # ""
    \/ IsVariableDeclarator(e)
    \/ e.node.type = "ClassMethod"

\* the visitors push a descriptor for this node
Described(e) ==
    \/ IsFunctionDeclaration(e) /\ e.node.name # ""
    \/ IsClassDeclaration(e) /\ e.node.name # ""
    \/ IsVariableDeclarator(e) /\ IsFunctionInit(e.node)

\* the descriptor of node n of module m
Descriptor(m, n) ==
    LET params == IF n.type = "ClassDeclaration" THEN <<>> ELSE GetParamNames(n.params)
    IN  [moduleId |-> m.id, modulePath |-> m.path, name |-> n.name,
         type |-> CASE n.type = "FunctionDeclaration" -> "function"
                    [] n.type = "ClassDeclaration" -> "class"
                    [] OTHER -> "variable_function",
         line |-> n.line, params |-> params, lines |-> n.endLine - n.line + 1,
         signature |->
            CASE n.type = "FunctionDeclaration" ->
                    <<"function ", n.name, "(">> \o Join(params) \o <<")">>
              [] n.type = "ClassDeclaration" -> <<"class ", n.name>>
              [] n.init = "ArrowFunctionExpression" ->
                    <<"const ", n.name, " = (">> \o Join(params) \o <<") =>">>
              [] OTHER ->
                    <<"const ", n.name, " = function(">> \o Join(params) \o <<")">>]

\* what one module adds to results; a parse error is swallowed
Descriptors(m) ==
    IF ~Parses(m.code) THEN <<>>
    ELSE LET found == SelectSeq(PreOrder(Parse(m.code).nodes, <<>>), Described)
         IN  [i \in 1..Len(found) |-> Descriptor(m, found[i].node)]

\* (mutant) the descriptors of a module go in front of the earlier ones
RECURSIVE ScanLoopNewestFirst(_, _, _)
ScanLoopNewestFirst(mods, results, limit) ==
    IF mods = <<>> \/ Len(results) >= limit THEN results
    ELSE ScanLoopNewestFirst(Tail(mods), Descriptors(Head(mods)) \o results, limit)

\* (mutant) one try around the whole loop: a module that fails to parse ends
\* the scan
RECURSIVE ScanLoopStopAtFailure(_, _, _)
ScanLoopStopAtFailure(mods, results, limit) ==
    IF mods = <<>> \/ Len(results) >= limit \/ ~Parses(Head(mods).code) THEN results
    ELSE ScanLoopStopAtFailure(Tail(mods), results \o Descriptors(Head(mods)), limit)

\* for (const mod of modulesToScan) { if (results.length >= limit) break; ... }
RECURSIVE ScanLoop(_, _, _)
ScanLoop(mods, results, limit) ==
    IF mods = <<>> \/ Len(results) >= limit THEN results
    ELSE ScanLoop(Tail(mods), results \o Descriptors(Head(mods)), limit)

\* (mutant) an id that is not cached falls back to scanning every module
ListFunctionsCallScanAll(cache, moduleId, limit) ==
    IF ~cache.live THEN Err("NoBundle")
    ELSE LET modulesToScan == IF Given(moduleId) /\ Has(cache.modules, moduleId)
                              THEN <<Get(cache.modules, moduleId)>>
                              ELSE cache.modules
         IN  Ok(Slice0(ScanLoop(modulesToScan, <<>>, limit), limit))

ListFunctionsCall(cache, moduleId, limit) ==
    IF ~cache.live THEN Err("NoBundle")
    ELSE IF Given(moduleId) /\ ~Has(cache.modules, moduleId)
    THEN [kind |-> "UnitNotFound", value |-> moduleId]
    ELSE LET modulesToScan == IF Given(moduleId)
                              THEN <<Get(cache.modules, moduleId)>>
                              ELSE cache.modules
         IN  Ok(Slice0(ScanLoop(modulesToScan, <<>>, limit), limit))

ListFunctions(moduleId, limit) ==
    /\ last = Idle
    /\ last' = [op |-> "listFunctions",
                args |-> [moduleId |-> moduleId, limit |-> limit],
                ext |-> NoExt,
                out |-> ListFunctionsCall(lastBundle, moduleId, limit)]
    /\ UNCHANGED <<lastBundle, seen, inflight>>

----------------------------------------------------------------------------
(* getCallGraph *)

\* the characters of a symbol name
SymChars(symbolName) == <<symbolName>>

\* (mutant) the name of a member expression is its whole text
CalleeNameAsWritten(c) == c.text

\* the name an outgoing edge gives a callee, <<>> when it gives none
CalleeName(c) ==
    IF c.kind = "Identifier" THEN <<c.name>>
    ELSE IF c.kind = "MemberExpression" /\ c.property # ""
    THEN (IF c.object # "" THEN <<c.object>> ELSE <<>>) \o <<".", c.property>>
    ELSE <<>>

\* path.traverse({CallExpression}): the calls of a subtree, in pre-order
RECURSIVE CallsIn(_)
CallsIn(nodes) ==
    IF nodes = <<>> THEN <<>>
    ELSE (IF Head(nodes).type = "CallExpression"
             /\ CalleeName(Head(nodes).callee) # <<>>
          THEN <<[name |-> CalleeName(Head(nodes).callee), line |-> Head(nodes).line]>>
          ELSE <<>>)
         \o CallsIn(Head(nodes).body)
         \o CallsIn(Tail(nodes))

\* isTarget: a declaration of symbolName
IsTarget(n, symbolName) ==
    /\ n.name = symbolName /\ n.name # ""
    /\ \/ n.type = "FunctionDeclaration"
       \/ n.type = "VariableDeclarator" /\ IsFunctionInit(n)
       \/ n.type = "ClassDeclaration"

\* enter(path): every declaration of symbolName that is reached adds the
\* calls of its subtree and is skipped; other nodes are descended into
RECURSIVE Outgoing(_, _)
Outgoing(nodes, symbolName) ==
    IF nodes = <<>> THEN <<>>
    ELSE (IF IsTarget(Head(nodes), symbolName)
          THEN CallsIn(Head(nodes).body)
          ELSE Outgoing(Head(nodes).body, symbolName))
         \o Outgoing(Tail(nodes), symbolName)

\* Function nodes: declarations, methods, and the function or arrow
\* expression a declarator is initialised to
IsFunctionLike(a) ==
    \/ a.type \in {"FunctionDeclaration", "ClassMethod", "ObjectMethod"}
    \/ a.type \in {"VariableDeclarator", "CallExpression"}
       /\ a.init \in {"FunctionExpression", "ArrowFunctionExpression"}

\* (mutant) the outermost function-like ancestor
FunctionParentOutermost(ancestors) ==
    LET at == {i \in 1..Len(ancestors) : IsFunctionLike(ancestors[i])}
    IN  IF at = {} THEN <<>>
        ELSE <<ancestors[CHOOSE i \in at : \A j \in at : i <= j]>>

\* path.getFunctionParent(): the nearest function-like ancestor, as a
\* sequence of at most one
FunctionParent(ancestors) ==
    LET at == {i \in 1..Len(ancestors) : IsFunctionLike(ancestors[i])}
    IN  IF at = {} THEN <<>>
        ELSE <<ancestors[CHOOSE i \in at : \A j \in at : j <= i]>>

\* callerName: "(top-level)" unless one of the branches names the caller
CallerNameOf(parentFunc) ==
    IF parentFunc = <<>> THEN "(top-level)"
    ELSE IF parentFunc[1].type = "FunctionDeclaration"
    THEN IF parentFunc[1].name # "" THEN parentFunc[1].name ELSE "(top-level)"
    ELSE IF parentFunc[1].init \in {"FunctionExpression", "ArrowFunctionExpression"}
    THEN IF parentFunc[1].type = "VariableDeclarator" /\ parentFunc[1].name # ""
         THEN parentFunc[1].name
         ELSE "(anonymous function)"
    ELSE IF parentFunc[1].type = "ClassMethod" THEN parentFunc[1].name
    ELSE "(top-level)"

CallerName(e) == CallerNameOf(FunctionParent(e.ancestors))

\* (mutant) only a plain identifier callee counts as a call of symbolName
CallsSymbolByIdentifier(c, symbolName) == c.kind = "Identifier" /\ c.name = symbolName

\* the call is a call of symbolName
CallsSymbol(c, symbolName) ==
    \/ c.kind = "Identifier" /\ c.name = symbolName
    \/ c.kind = "MemberExpression" /\ c.property = symbolName /\ c.property # ""

\* the incoming edges one scanned module adds; a parse error is swallowed
IncomingOf(m, symbolName) ==
    IF ~Parses(m.code) THEN <<>>
    ELSE LET calls == SelectSeq(PreOrder(Parse(m.code).nodes, <<>>),
                                LAMBDA e : IsCallExpression(e)
                                           /\ CallsSymbol(e.node.callee, symbolName))
         IN  [i \in 1..Len(calls) |->
                 [callerModuleId |-> m.id, callerName |-> CallerName(calls[i]),
                  line |-> calls[i].node.line]]

RECURSIVE IncomingAll(_, _)
IncomingAll(mods, symbolName) ==
    IF mods = <<>> THEN <<>>
    ELSE IncomingOf(Head(mods), symbolName) \o IncomingAll(Tail(mods), symbolName)

\* (mutant) edges that differ in the line only count as one
RECURSIVE DedupButLine(_)
DedupButLine(edges) ==
    IF edges = <<>> THEN <<>>
    ELSE LET front == DedupButLine(SubSeq(edges, 1, Len(edges) - 1))
             e == edges[Len(edges)]
         IN  IF \E i \in 1..Len(front) : [front[i] EXCEPT !.line = 0] = [e EXCEPT !.line = 0]
             THEN front ELSE Append(front, e)

\* [...new Set(edges.map(JSON.stringify))].map(JSON.parse)
RECURSIVE Dedup(_)
Dedup(edges) ==
    IF edges = <<>> THEN <<>>
    ELSE LET front == Dedup(SubSeq(edges, 1, Len(edges) - 1))
             e == edges[Len(edges)]
         IN  IF \E i \in 1..Len(front) : front[i] = e THEN front ELSE Append(front, e)

\* (mutant) with scanAllModules the target module itself is not scanned
GetCallGraphCallOthersOnly(cache, symbolName, moduleId, scanAllModules) ==
    IF ~cache.live THEN Err("NoBundle")
    ELSE IF ~Has(cache.modules, moduleId)
    THEN [kind |-> "UnitNotFound", value |-> moduleId]
    ELSE LET targetModule == Get(cache.modules, moduleId)
             outgoing == IF Parses(targetModule.code)
                         THEN Outgoing(Parse(targetModule.code).nodes, symbolName)
                         ELSE <<>>
             modulesToScan ==
                 IF scanAllModules
                 THEN SelectSeq(cache.modules,
                                LAMBDA m : /\ m.id # moduleId
                                           /\ Includes(Raw(m.code), SymChars(symbolName)))
                 ELSE <<targetModule>>
         IN  Ok([symbol |-> symbolName, moduleId |-> moduleId,
                 outgoing |-> Dedup(outgoing),
                 incoming |-> Dedup(IncomingAll(modulesToScan, symbolName))])

GetCallGraphCall(cache, symbolName, moduleId, scanAllModules) ==
    IF ~cache.live THEN Err("NoBundle")
    ELSE IF ~Has(cache.modules, moduleId)
    THEN [kind |-> "UnitNotFound", value |-> moduleId]
    ELSE LET targetModule == Get(cache.modules, moduleId)
             outgoing == IF Parses(targetModule.code)
                         THEN Outgoing(Parse(targetModule.code).nodes, symbolName)
                         ELSE <<>>
             modulesToScan ==
                 IF scanAllModules
                 THEN SelectSeq(cache.modules,
                                LAMBDA m : Includes(Raw(m.code), SymChars(symbolName)))
                 ELSE <<targetModule>>
         IN  Ok([symbol |-> symbolName, moduleId |-> moduleId,
                 outgoing |-> Dedup(outgoing),
                 incoming |-> Dedup(IncomingAll(modulesToScan, symbolName))])

GetCallGraph(symbolName, moduleId, scanAllModules) ==
    /\ last = Idle
    /\ last' = [op |-> "getCallGraph",
                args |-> [symbolName |-> symbolName, moduleId |-> moduleId,
                          scanAllModules |-> scanAllModules],
                ext |-> NoExt,
                out |-> GetCallGraphCall(lastBundle, symbolName, moduleId, scanAllModules)]
    /\ UNCHANGED <<lastBundle, seen, inflight>>

----------------------------------------------------------------------------
(* getSymbolSource *)

\* the chunk of the semicolon that ends the declaration statement, looking
\* from chunk i on outside of any braces
RECURSIVE StatementEnd(_, _, _)
StatementEnd(toks, i, depth) ==
    IF i >= Len(toks) THEN Len(toks)
    ELSE IF depth = 0 /\ toks[i] = ";" THEN i
    ELSE StatementEnd(toks, i + 1,
                      IF toks[i] \in {"(){", "()=>{", ")=>{", "){", "{"} THEN depth + 1
                      ELSE IF toks[i] = "}" THEN depth - 1
                      ELSE depth)

\* const { start, end } = path.node, path being the declaration statement
\* for a declarator: sourceCode.slice(start, end)
FoundCode(sourceCode, n) ==
    IF n.type = "VariableDeclarator"
    THEN SubSeq(sourceCode, n.stmt, StatementEnd(sourceCode, n.end + 1, 0))
    ELSE SubSeq(sourceCode, n.start, n.end)

\* (mutant) any node of that name counts, a method included
FirstDeclarationAnyNamed(nodes, symbolName) ==
    LET hits == SelectSeq(PreOrder(nodes, <<>>),
                          LAMBDA e : e.node.name = symbolName /\ e.node.name # "")
    IN  IF hits = <<>> THEN <<>> ELSE <<hits[1].node>>

\* (mutant) only function and class declarations are matched
FirstDeclarationNoDeclarator(nodes, symbolName) ==
    LET hits == SelectSeq(PreOrder(nodes, <<>>),
                          LAMBDA e : /\ e.node.name = symbolName /\ e.node.name # ""
                                     /\ \/ IsFunctionDeclaration(e)
                                        \/ IsClassDeclaration(e))
    IN  IF hits = <<>> THEN <<>> ELSE <<hits[1].node>>

\* the first node in pre-order that declares symbolName, as a sequence of
\* at most one node
FirstDeclaration(nodes, symbolName) ==
    LET hits == SelectSeq(PreOrder(nodes, <<>>),
                          LAMBDA e : /\ e.node.name = symbolName /\ e.node.name # ""
                                     /\ \/ IsFunctionDeclaration(e)
                                        \/ IsClassDeclaration(e)
                                        \/ IsVariableDeclarator(e))
    IN  IF hits = <<>> THEN <<>> ELSE <<hits[1].node>>

\* (mutant) the cache is required whichever source is named
GetSymbolSourceCallCacheFirst(cache, symbolName, code, moduleId, file) ==
    IF ~cache.live THEN Err("NoBundle")
    ELSE IF file.path # "" /\ ~file.ok THEN Err("ReadFailure")
    ELSE IF Given(moduleId) /\ ~Has(cache.modules, moduleId)
    THEN [kind |-> "UnitNotFound", value |-> moduleId]
    ELSE LET sourceCode == IF Given(moduleId) THEN Get(cache.modules, moduleId).code
                           ELSE IF file.path # "" THEN file.text
                           ELSE code
         IN  IF sourceCode = <<>> THEN Err("MissingInput")
             ELSE IF ~Parses(sourceCode)
             THEN [kind |-> "ParseFailure", value |-> "SyntaxError"]
             ELSE LET found == FirstDeclaration(Parse(sourceCode).nodes, symbolName)
                  IN  IF found = <<>>
                      THEN [kind |-> "SymbolNotFound", value |-> symbolName]
                      ELSE FormatJS(FoundCode(sourceCode, found[1]))

GetSymbolSourceCall(cache, symbolName, code, moduleId, file) ==
    IF file.path # "" /\ ~file.ok THEN Err("ReadFailure")
    ELSE IF Given(moduleId) /\ ~cache.live THEN Err("NoBundle")
    ELSE IF Given(moduleId) /\ ~Has(cache.modules, moduleId)
    THEN [kind |-> "UnitNotFound", value |-> moduleId]
    ELSE LET sourceCode == IF Given(moduleId) THEN Get(cache.modules, moduleId).code
                           ELSE IF file.path # "" THEN file.text
                           ELSE code
         IN  IF sourceCode = <<>> THEN Err("MissingInput")
             ELSE IF ~Parses(sourceCode)
             THEN [kind |-> "ParseFailure", value |-> "SyntaxError"]
             ELSE LET found == FirstDeclaration(Parse(sourceCode).nodes, symbolName)
                  IN  IF found = <<>>
                      THEN [kind |-> "SymbolNotFound", value |-> symbolName]
                      ELSE FormatJS(FoundCode(sourceCode, found[1]))

GetSymbolSource(symbolName, code, moduleId, file) ==
    /\ last = Idle
    /\ last' = [op |-> "getSymbolSource",
                args |-> [symbolName |-> symbolName, code |-> code,
                          moduleId |-> moduleId, file |-> file],
                ext |-> NoExt,
                out |-> GetSymbolSourceCall(lastBundle, symbolName, code, moduleId, file)]
    /\ UNCHANGED <<lastBundle, seen, inflight>>

----------------------------------------------------------------------------
(* analyzeStructure, formatCode, getHelp *)

\* every error raised inside the try block is rethrown as
\* "Failed to parse AST: <message>"; value names the cause
AnalyzeStructureCall(code, limit, file) ==
    LET sourceCode == IF file.path # "" THEN file.text ELSE code
    IN  IF file.path # "" /\ ~file.ok
        THEN [kind |-> "ParseFailure", value |-> "ReadFailure"]
        ELSE IF sourceCode = <<>>
        THEN [kind |-> "ParseFailure", value |-> "MissingInput"]
        ELSE IF ~Parses(sourceCode)
        THEN [kind |-> "ParseFailure", value |-> "SyntaxError"]
        ELSE LET all == PreOrder(Parse(sourceCode).nodes, <<>>)
                 fns == SelectSeq(all, LAMBDA e : IsFunctionDeclaration(e)
                                                  /\ e.node.name # "")
                 classes == SelectSeq(all, LAMBDA e : IsClassDeclaration(e)
                                                      /\ e.node.name # "")
                 variables == SelectSeq(all, LAMBDA e : IsVariableDeclarator(e)
                                                        /\ e.node.name # "")
                 names == [i \in 1..Len(fns) |-> fns[i].node.name]
                 classNames == [i \in 1..Len(classes) |-> classes[i].node.name]
             IN  Ok([functions |-> Slice0(names, limit),
                     classes |-> Slice0(classNames, limit),
                     exports |-> <<>>, totalFunctions |-> Len(names),
                     totalVariables |-> Len(variables)])

AnalyzeStructure(code, limit, file) ==
    /\ last = Idle
    /\ last' = [op |-> "analyzeStructure",
                args |-> [code |-> code, limit |-> limit, file |-> file],
                ext |-> NoExt,
                out |-> AnalyzeStructureCall(code, limit, file)]
    /\ UNCHANGED <<lastBundle, seen, inflight>>

ParserNames == {"babel"}

FormatCodeCall(code, parserName, file) ==
    LET sourceCode == IF file.path # "" THEN file.text ELSE code
    IN  IF file.path # "" /\ ~file.ok THEN Err("ReadFailure")
        ELSE IF sourceCode = <<>> THEN Err("MissingInput")
        ELSE FormatJS(sourceCode)

FormatCode(code, parserName, file) ==
    /\ last = Idle
    /\ last' = [op |-> "formatCode",
                args |-> [code |-> code, parserName |-> parserName, file |-> file],
                ext |-> NoExt,
                out |-> FormatCodeCall(code, parserName, file)]
    /\ UNCHANGED <<lastBundle, seen, inflight>>

\* the keys of TOOL_DOCS
ToolNames ==
    {"deobfuscate", "list_modules", "get_module", "search_modules",
     "analyze_structure", "format_code", "get_help", "get_symbol_source",
     "list_functions", "get_call_graph"}

HelpQueries == {"deobfuscate", "nonexistent"}

GetHelpCall(toolName) ==
    IF toolName \in ToolNames THEN Ok(<<"Tool: ", toolName>>)
    ELSE [kind |-> "NoDoc", value |-> toolName]

GetHelp(toolName) ==
    /\ last = Idle
    /\ last' = [op |-> "getHelp", args |-> [toolName |-> toolName],
                ext |-> NoExt, out |-> GetHelpCall(toolName)]
    /\ UNCHANGED <<lastBundle, seen, inflight>>

\* the harness resets the exported state between calls
ClearCache ==
    /\ last = Idle
    /\ lastBundle # NoBundle
    /\ lastBundle' = NoBundle
    /\ UNCHANGED <<last, seen, inflight>>

\* the tool handler hands the result (or the error) to the transport; the
\* server is ready for the next request
Respond ==
    /\ last # Idle
    /\ last' = Idle
    /\ UNCHANGED <<lastBundle, seen, inflight>>

----------------------------------------------------------------------------
(* Specification *)

NoObservation == [any |-> FALSE, unit |-> EntryUnit(<<>>), out |-> Err("none")]

Init ==
    /\ lastBundle = NoBundle
    /\ last = Idle
    /\ seen = NoObservation
    /\ inflight = <<>>

\* a request is taken only when the previous one has been answered
Next ==
    \/ /\ last = Idle
       /\ \E code \in SourceTexts, unbundle \in BOOLEAN, file \in FileArgs,
             returnCode \in BOOLEAN, skipVendor \in BOOLEAN :
             \E wc \in WebcrackResults(unbundle) :
                 Deobfuscate(code, unbundle, file, returnCode, skipVendor, wc)
    \/ /\ last = Idle
       /\ \E excludeVendor \in BOOLEAN : ListModules(excludeVendor)
    \/ /\ last = Idle
       /\ \E id \in QueryIds : GetModule(id)
    \/ /\ last = Idle
       /\ \E query \in Queries, isRegex \in BOOLEAN, limit \in Limits :
             SearchModules(query, isRegex, limit)
    \/ /\ last = Idle
       /\ \E moduleId \in OptionalIds, limit \in Limits : ListFunctions(moduleId, limit)
    \/ /\ last = Idle
       /\ \E symbolName \in Names, moduleId \in QueryIds, scanAllModules \in BOOLEAN :
             GetCallGraph(symbolName, moduleId, scanAllModules)
    \/ /\ last = Idle
       /\ \E symbolName \in Names, code \in CodeArgs, moduleId \in OptionalIds,
             file \in FileArgs :
             GetSymbolSource(symbolName, code, moduleId, file)
    \/ /\ last = Idle
       /\ \E code \in CodeArgs, limit \in Limits, file \in FileArgs :
             AnalyzeStructure(code, limit, file)
    \/ /\ last = Idle
       /\ \E code \in CodeArgs, parserName \in ParserNames, file \in FileArgs :
             FormatCode(code, parserName, file)
    \/ /\ last = Idle
       /\ \E toolName \in HelpQueries : GetHelp(toolName)
    \/ ClearCache
    \/ Respond

Spec == Init /\ [][Next]_vars

----------------------------------------------------------------------------
(* getModule observed twice *)

\* an observer keeps one answered getModule call: the unit the id was bound
\* to and what the call returned
Remember ==
    /\ last.op = "getModule"
    /\ lastBundle.live /\ Has(lastBundle.modules, last.args.id)
    /\ seen' = [any |-> TRUE,
                unit |-> Get(lastBundle.modules, last.args.id),
                out |-> last.out]
    /\ UNCHANGED <<lastBundle, last, inflight>>

\* deobfuscate calls on inline code with the default options, getModule calls
\* and the observer
NextGet ==
    \/ /\ last = Idle
       /\ \E wc \in WebcrackResults(TRUE) :
            Deobfuscate(FunText, TRUE, NoFile, FALSE, FALSE, wc)
    \/ /\ last = Idle
       /\ \E id \in QueryIds : GetModule(id)
    \/ Remember
    \/ ClearCache
    \/ Respond

SpecGet == Init /\ [][NextGet]_vars

----------------------------------------------------------------------------
(* The classifier applied to every path *)

\* a snapshot of one module with the given path, and the entry unit
InitPaths ==
    /\ \E path \in ClassifierPaths :
          lastBundle = Install(NoBundle,
                               BuildModules([ok |-> TRUE, code |-> EmptyText,
                                             hasBundle |-> TRUE,
                                             modules |-> <<[id |-> "1", path |-> path,
                                                            code |-> CallText]>>],
                                            FALSE))
    /\ last = Idle
    /\ seen = NoObservation
    /\ inflight = <<>>

NextPaths ==
    \/ /\ last = Idle
       /\ \E excludeVendor \in BOOLEAN : ListModules(excludeVendor)
    \/ Respond

SpecPaths == InitPaths /\ [][NextPaths]_vars

----------------------------------------------------------------------------
(* The scanning tools run on snapshots of richer texts *)

\* ids of the modules of a bundle, in the order of the bundle
BundleIds == <<"1", "2", "3">>

\* unpack results with at most MaxModules application modules
ScanResults ==
    {[ok |-> TRUE, code |-> code, hasBundle |-> TRUE,
      modules |-> [i \in 1..Len(texts) |->
                      [id |-> BundleIds[i], path |-> AppPath, code |-> texts[i]]]] :
        code \in ScanEntryTexts,
        texts \in UNION {[1..k -> ScanTexts] : k \in 0..MaxModules}}

\* the snapshot a deobfuscate call leaves for one of these results
InitScan ==
    /\ \E wc \in ScanResults :
          lastBundle = Install(NoBundle, BuildModules(wc, FALSE))
    /\ last = Idle
    /\ seen = NoObservation
    /\ inflight = <<>>

NextScan ==
    \/ /\ last = Idle
       /\ \E moduleId \in OptionalIds, limit \in Limits : ListFunctions(moduleId, limit)
    \/ /\ last = Idle
       /\ \E symbolName \in Identifiers, moduleId \in QueryIds,
             scanAllModules \in BOOLEAN :
                GetCallGraph(symbolName, moduleId, scanAllModules)
    \/ /\ last = Idle
       /\ \E symbolName \in Identifiers, moduleId \in QueryIds :
                GetSymbolSource(symbolName, EmptyText, moduleId, NoFile)
    \/ Respond

SpecScan == InitScan /\ [][NextScan]_vars

----------------------------------------------------------------------------
(* deobfuscate calls in flight: the handler split at its awaits *)

CallIds == 1..MaxCalls

\* what the unpack transform hands to the calls in flight: a failure, code
\* without a bundle that the pretty-printer rejects, a bundle of one
\* application module, a bundle of one vendor module
AsyncResults ==
    { WebcrackFailure,
      [ok |-> TRUE, code |-> BadText, hasBundle |-> FALSE, modules |-> <<>>],
      [ok |-> TRUE, code |-> CallText, hasBundle |-> TRUE,
       modules |-> <<[id |-> "1", path |-> AppPath, code |-> FunText]>>],
      [ok |-> TRUE, code |-> FunText, hasBundle |-> TRUE,
       modules |-> <<[id |-> "2", path |-> VendorPath, code |-> CallText]>>] }

\* a call is at "start" (not made yet), suspended at one of its awaits
\* ("readFile", "webcrack", "formatJS") or "done"; result is the unpack
\* result once the call has it, out the kind of what the call ended with
NotStarted ==
    [pc |-> "start", returnCode |-> FALSE, skipVendor |-> FALSE,
     result |-> WebcrackFailure, out |-> "none"]

Suspended(pc, returnCode, skipVendor, result) ==
    [pc |-> pc, returnCode |-> returnCode, skipVendor |-> skipVendor,
     result |-> result, out |-> "none"]

\* the call has thrown before it had an unpack result
Thrown(kind) == [NotStarted EXCEPT !.pc = "done", !.out = kind]

\* the call has ended after installing its snapshot
Ended(call, result, kind) ==
    [pc |-> "done", returnCode |-> FALSE, skipVendor |-> call.skipVendor,
     result |-> result, out |-> kind]

\* the call holds an unpack result, so it has assigned state.lastBundle
HasInstalled(call) == call.pc \in {"formatJS", "done"} /\ call.result.ok

\* (mutant) with returnCode the bundle's units are cached at once and the
\* entry unit only after the pretty-printer has returned
UnpackedEntryLater(cache, call, wc) ==
    IF call.returnCode /\ wc.hasBundle
    THEN Install(cache, wc.modules)
    ELSE Install(cache, BuildModules(wc, call.skipVendor))

\* the cache after the call got wc from webcrack: the map is built and
\* assigned without an await in between
Unpacked(cache, call, wc) == Install(cache, BuildModules(wc, call.skipVendor))

\* the call is made; it runs to its first await or to the throw (the calls
\* are numbered in the order they are made)
DeobfuscateBegin(c, code, filePath, returnCode, skipVendor) ==
    /\ inflight[c].pc = "start"
    /\ \A d \in 1..(c - 1) : inflight[d].pc # "start"
    /\ inflight' = [inflight EXCEPT ![c] =
          IF filePath # ""
          THEN Suspended("readFile", returnCode, skipVendor, WebcrackFailure)
          ELSE IF code = <<>> THEN Thrown("MissingInput")
          ELSE Suspended("webcrack", returnCode, skipVendor, WebcrackFailure)]
    /\ UNCHANGED <<lastBundle, last, seen>>

\* readFile settles; the call runs to the await of webcrack or to a throw
ReadFileDone(c, file) ==
    /\ inflight[c].pc = "readFile"
    /\ file.path # ""
    /\ inflight' = [inflight EXCEPT ![c] =
          IF ~file.ok THEN Thrown("ReadFailure")
          ELSE IF file.text = <<>> THEN Thrown("MissingInput")
          ELSE [@ EXCEPT !.pc = "webcrack"]]
    /\ UNCHANGED <<lastBundle, last, seen>>

\* webcrack settles; the call builds its map, assigns it to state.lastBundle
\* and runs to the return of the summary or to the await of formatJS
WebcrackDone(c, wc) ==
    /\ inflight[c].pc = "webcrack"
    /\ IF ~wc.ok
       THEN /\ inflight' = [inflight EXCEPT ![c] = Thrown("TransformFailure")]
            /\ UNCHANGED lastBundle
       ELSE /\ lastBundle' = Unpacked(lastBundle, inflight[c], wc)
            /\ inflight' = [inflight EXCEPT ![c] =
                  IF @.returnCode
                  THEN Suspended("formatJS", TRUE, @.skipVendor, wc)
                  ELSE Ended(@, wc, "ok")]
    /\ UNCHANGED <<last, seen>>

\* formatJS settles; the call returns the text or throws
FormatDone(c) ==
    /\ inflight[c].pc = "formatJS"
    /\ inflight' = [inflight EXCEPT ![c] =
          Ended(@, @.result, ResponseText(@.result).kind)]
    /\ UNCHANGED <<lastBundle, last, seen>>

InitAsync ==
    /\ lastBundle = NoBundle
    /\ last = Idle
    /\ seen = NoObservation
    /\ inflight = [c \in CallIds |-> NotStarted]

\* the steps of the calls in flight (made with skipVendor left at its
\* default), interleaved with the queries, each of which runs from its call
\* to its return without an await
NextAsync ==
    \/ \E c \in CallIds, code \in SourceTexts, filePath \in {"", "in.js"},
          returnCode \in BOOLEAN :
          DeobfuscateBegin(c, code, filePath, returnCode, FALSE)
    \/ \E c \in CallIds, file \in FileArgs : ReadFileDone(c, file)
    \/ \E c \in CallIds, wc \in AsyncResults : WebcrackDone(c, wc)
    \/ \E c \in CallIds : FormatDone(c)
    \/ /\ last = Idle
       /\ \E excludeVendor \in BOOLEAN : ListModules(excludeVendor)
    \/ /\ last = Idle
       /\ \E query \in {<<"a">>, <<"A">>} : SearchModules(query, FALSE, MaxLimit)
    \/ /\ last = Idle
       /\ ListFunctions(NoId, MaxLimit)
    \/ /\ last = Idle
       /\ \E moduleId \in {"1", EntryId} : GetCallGraph("a", moduleId, TRUE)
    \/ Respond

SpecAsync == InitAsync /\ [][NextAsync]_vars

----------------------------------------------------------------------------
(* Vocabulary of the properties *)

\* the tools that only read
QueryOps ==
    {"listModules", "getModule", "searchModules", "listFunctions",
     "getCallGraph", "getSymbolSource", "analyzeStructure", "formatCode", "getHelp"}

\* the tools that need the cache whatever their arguments
CacheOps == {"listModules", "getModule", "searchModules", "listFunctions", "getCallGraph"}

Succeeded == last.out.kind = "ok"

UnitSet(modules) == {modules[i] : i \in 1..Len(modules)}

\* id and path of every unit of the live snapshot
Handles == {[id |-> u.id, path |-> u.path] : u \in UnitSet(lastBundle.modules)}

SeqSet(s) == {s[i] : i \in 1..Len(s)}

\* the units one unpack result stands for: its bundle's units, without the
\* vendor units when skipVendor is set, and the entry unit under its id
ProducedUnits(wc, skipVendor) ==
    {u \in (IF wc.hasBundle THEN UnitSet(wc.modules) ELSE {}) :
        /\ u.id # EntryId
        /\ ~(skipVendor /\ IsVendorModule(u.path))}
    \cup {[id |-> EntryId, path |-> EntryPath, code |-> wc.code]}

----------------------------------------------------------------------------
(* C1 *)

\* what a successful query returned refers to units of the live snapshot only
OnlyLiveUnitsReachable ==
    (last.op \in QueryOps /\ Succeeded) =>
        /\ last.op = "listModules" =>
              \A e \in SeqSet(last.out.value) :
                  \E u \in UnitSet(lastBundle.modules) :
                      /\ e.id = u.id /\ e.path = u.path
                      /\ e.size = Len(Raw(u.code))
        /\ last.op = "getModule" =>
              \E u \in UnitSet(lastBundle.modules) :
                  u.id = last.args.id /\ last.out = FormatJS(u.code)
        /\ last.op = "searchModules" => SeqSet(last.out.value) \subseteq Handles
        /\ last.op = "listFunctions" =>
              \A d \in SeqSet(last.out.value) :
                  \E u \in UnitSet(lastBundle.modules) :
                      /\ d.moduleId = u.id /\ d.modulePath = u.path
                      /\ Includes(Raw(u.code), SymChars(d.name))
        /\ last.op = "getCallGraph" =>
              /\ Has(lastBundle.modules, last.out.value.moduleId)
              /\ \A e \in SeqSet(last.out.value.incoming) :
                      Has(lastBundle.modules, e.callerModuleId)
        /\ (last.op = "getSymbolSource" /\ Given(last.args.moduleId)) =>
              \E u \in UnitSet(lastBundle.modules) :
                  /\ u.id = last.args.moduleId
                  /\ Includes(Raw(u.code), SymChars(last.args.symbolName))

\* C1: after a successful deobfuscate the live snapshot is exactly the set of
\* units that call produced (the unpack result's units, without the vendor
\* units when skipVendor is set, plus the entry unit), one unit per id; and
\* every later query result refers to units of the live snapshot only, so
\* nothing of an earlier snapshot is reachable.
C1_SnapshotIsLastUnpack ==
    /\ (last.op = "deobfuscate" /\ Succeeded) =>
          /\ lastBundle.live
          /\ UnitSet(lastBundle.modules)
                = ProducedUnits(last.ext.result, last.args.skipVendor)
          /\ Cardinality(Ids(lastBundle.modules)) = Len(lastBundle.modules)
    /\ OnlyLiveUnitsReachable

\* a successful deobfuscate with skipVendor that dropped a vendor unit
C1_Witness ==
    /\ last.op = "deobfuscate" /\ Succeeded
    /\ last.args.skipVendor /\ last.ext.result.hasBundle
    /\ last.out.value.removedCount = 1
    /\ Len(lastBundle.modules) = 1

----------------------------------------------------------------------------
(* C2 *)

\* C2: while no snapshot is live, listModules, getModule, searchModules,
\* listFunctions and getCallGraph fail with NoBundle for every argument,
\* return nothing else (no value, no module tested) and leave the cache empty.
C2_NoBundleWhenEmpty ==
    [][(~lastBundle.live /\ last'.op \in CacheOps) =>
          /\ last'.out = Err("NoBundle")
          /\ (last'.op = "searchModules" => last'.ext.tested = 0)
          /\ lastBundle' = NoBundle]_vars

\* a regex search with an invalid pattern answered on an empty cache
C2_Witness ==
    /\ ~lastBundle.live
    /\ last.op = "searchModules" /\ last.args.isRegex
    /\ ~RegexCompiles(last.args.query)
    /\ last.out.kind = "NoBundle"

----------------------------------------------------------------------------
(* C3 *)

\* a getSymbolSource call answered on an empty cache
SymbolSourceOnEmpty == last.op = "getSymbolSource" /\ ~lastBundle.live

\* the file named by filePath, if any, could be read
FileRead(file) == file.path = "" \/ file.ok

\* C3 as stated: on an empty cache getSymbolSource fails with NoBundle
\* whichever of code, filePath and moduleId is supplied.
C3_AlwaysNoBundle ==
    SymbolSourceOnEmpty => last.out.kind = "NoBundle"

\* C3: on an empty cache getSymbolSource fails with NoBundle exactly when a
\* moduleId is supplied and the file named by filePath, if any, was read;
\* with inline code or a file only it never fails with NoBundle: it works on
\* that text.  In every case the cache stays empty.
C3_NoBundleOnlyWithModuleId ==
    SymbolSourceOnEmpty =>
        /\ last.out.kind = "NoBundle"
              <=> (Given(last.args.moduleId) /\ FileRead(last.args.file))
        /\ (~Given(last.args.moduleId) /\ last.args.file.path = ""
              /\ FirstDeclaration(Parse(last.args.code).nodes, last.args.symbolName) # <<>>)
             => last.out = FormatJS(last.args.code)
        /\ lastBundle = NoBundle

\* inline code alone, empty cache: the declaration is returned
C3_Witness ==
    /\ SymbolSourceOnEmpty
    /\ last.args.moduleId = NoId /\ last.args.file.path = ""
    /\ last.args.code = FunText /\ last.args.symbolName = "a"
    /\ Succeeded

----------------------------------------------------------------------------
(* C4 *)

\* C4: no tool other than deobfuscate changes the cache: across a call of
\* any reading tool, failed or not, the cache is the same before and after.
C4_OnlyDeobfuscateWrites ==
    [][last'.op \in QueryOps => lastBundle' = lastBundle]_vars

\* listModules with excludeVendor answered on a snapshot holding a vendor unit
C4_Witness ==
    /\ last.op = "listModules" /\ last.args.excludeVendor
    /\ lastBundle.live
    /\ \E u \in UnitSet(lastBundle.modules) : IsVendorModule(u.path)
    /\ Succeeded /\ Len(last.out.value) < Len(lastBundle.modules)

----------------------------------------------------------------------------
(* C5 *)

\* a getModule call for an id the live snapshot holds
GetModuleOfKey ==
    /\ last.op = "getModule"
    /\ lastBundle.live /\ Has(lastBundle.modules, last.args.id)

\* C5: getModule(m) for a key m of the live snapshot returns the pretty-printed
\* text of the unit bound to m and nothing else decides it: two calls that find
\* the same unit, in the same or in different snapshots, with any calls in
\* between, return the same outcome.
C5_GetModuleDependsOnUnitOnly ==
    GetModuleOfKey =>
        LET unit == Get(lastBundle.modules, last.args.id)
        IN  /\ last.out = FormatJS(unit.code)
            /\ (seen.any /\ seen.unit = unit) => seen.out = last.out

\* two answered calls on the same module unit, the second in a snapshot
\* that holds another entry point than the unit's text
C5_Witness ==
    /\ GetModuleOfKey /\ Succeeded
    /\ last.args.id # EntryId
    /\ seen.any /\ seen.unit = Get(lastBundle.modules, last.args.id)
    /\ Get(lastBundle.modules, EntryId).code # seen.unit.code

----------------------------------------------------------------------------
(* C6 *)

\* the tools that take a unit id, and the id of the call
IdOps == {"getModule", "getCallGraph", "listFunctions", "getSymbolSource"}

IdArg == IF last.op = "getModule" THEN last.args.id ELSE last.args.moduleId

UnitNotFound(id) == [kind |-> "UnitNotFound", value |-> id]

\* the call names a unit id: moduleId is optional for listFunctions and
\* getSymbolSource
NamesId == last.op \in IdOps /\ IdArg # NoId

\* C6 as stated: on snapshot S each of the four tools, called with a unit id,
\* fails with UnitNotFound naming the id whenever the id is not a key of S,
\* never when it is one, and with NoBundle when no snapshot is live.
C6_UnitNotFoundIffNotKey ==
    NamesId =>
        /\ lastBundle.live =>
              (last.out.kind = "UnitNotFound" <=> ~Has(lastBundle.modules, IdArg))
        /\ last.out.kind = "UnitNotFound" => last.out.value = IdArg
        /\ ~lastBundle.live => last.out.kind = "NoBundle"

\* the id reaches the lookup: listFunctions and getSymbolSource take an empty
\* moduleId as none, and getSymbolSource reads the file named first
ReachesLookup ==
    /\ last.op \in {"listFunctions", "getSymbolSource"} => IdArg # ""
    /\ last.op = "getSymbolSource" => FileRead(last.args.file)

\* C6: for a call whose id reaches the lookup (any id for getModule and
\* getCallGraph; a non-empty moduleId for listFunctions and getSymbolSource,
\* and for getSymbolSource a file that could be read when filePath is given)
\* the call fails with UnitNotFound naming the id exactly when the id is not a
\* key of the live snapshot, and with NoBundle when no snapshot is live; a call
\* whose id does not reach the lookup never fails with UnitNotFound.
C6_UnitNotFoundIffLookedUpNotKey ==
    NamesId =>
        /\ (ReachesLookup /\ lastBundle.live) =>
              /\ ~Has(lastBundle.modules, IdArg) => last.out = UnitNotFound(IdArg)
              /\ Has(lastBundle.modules, IdArg) => last.out.kind # "UnitNotFound"
        /\ (ReachesLookup /\ ~lastBundle.live) => last.out = Err("NoBundle")
        /\ ~ReachesLookup => last.out.kind # "UnitNotFound"

\* listFunctions asked for a module id the live snapshot does not hold
C6_Witness ==
    /\ last.op = "listFunctions" /\ lastBundle.live
    /\ last.args.moduleId \in ModuleIds
    /\ Len(lastBundle.modules) > 1
    /\ last.out = UnitNotFound(last.args.moduleId)

----------------------------------------------------------------------------
(* C7 *)

\* the handle of the entry unit in search results
EntryHandle == [id |-> EntryId, path |-> EntryPath]

\* the live snapshot holds the entry unit and nothing else
EntryOnly ==
    /\ lastBundle.live
    /\ Ids(lastBundle.modules) = {EntryId}

\* C7: after a successful deobfuscate the snapshot holds the unit "(entry)"
\* with path "Main Entry Point" and the transformed code of the whole input as
\* its text; when no bundle was detected it is the only unit, and then
\* listModules lists exactly it and a literal query its text contains finds it.
C7_EntryUnitAlwaysPresent ==
    /\ (last.op = "deobfuscate" /\ Succeeded) =>
          /\ Has(lastBundle.modules, EntryId)
          /\ Get(lastBundle.modules, EntryId)
                = [id |-> EntryId, path |-> EntryPath, code |-> last.ext.result.code]
          /\ ~last.ext.result.hasBundle => lastBundle.modules = <<EntryUnit(last.ext.result.code)>>
    /\ lastBundle.live =>
          /\ Has(lastBundle.modules, EntryId)
          /\ Get(lastBundle.modules, EntryId).path = EntryPath
    /\ (EntryOnly /\ last.op = "listModules") =>
          /\ Succeeded /\ Len(last.out.value) = 1
          /\ last.out.value[1].id = EntryId
          /\ last.out.value[1].path = EntryPath
    /\ (EntryOnly /\ last.op = "searchModules" /\ ~last.args.isRegex
          /\ Includes(Raw(Get(lastBundle.modules, EntryId).code), last.args.query)
          /\ last.args.limit >= 1) =>
          last.out = Ok(<<EntryHandle>>)

\* a literal search that found the only unit, the entry point
C7_Witness ==
    /\ EntryOnly
    /\ last.op = "searchModules" /\ ~last.args.isRegex
    /\ last.args.query = Raw(CallText)
    /\ last.out = Ok(<<EntryHandle>>)

----------------------------------------------------------------------------
(* C8 *)

\* the handles of the units of the live snapshot that match the query of the
\* call in the mode of the call
MatchingHandles ==
    {[id |-> u.id, path |-> u.path] :
        u \in {v \in UnitSet(lastBundle.modules) :
                 IF last.args.isRegex
                 THEN RegexTest(last.args.query, Raw(v.code))
                 ELSE Includes(Raw(v.code), last.args.query)}}

\* C8: a successful searchModules returns units of the snapshot only, each at
\* most once, and a unit is returned only if its raw text contains the query
\* as a literal, case-sensitive substring (isRegex false) or is matched by the
\* query compiled as a case-insensitive pattern (isRegex true); when the limit
\* leaves room every matching unit is returned.
C8_ReturnedIffMatching ==
    (last.op = "searchModules" /\ Succeeded) =>
        /\ SeqSet(last.out.value) \subseteq MatchingHandles
        /\ MatchingHandles \subseteq Handles
        /\ Cardinality(SeqSet(last.out.value)) = Len(last.out.value)
        /\ last.args.limit >= Cardinality(MatchingHandles) =>
              SeqSet(last.out.value) = MatchingHandles

\* a pattern search that returned a unit only the ignored case lets match,
\* and left out a unit that does not match
C8_Witness ==
    /\ last.op = "searchModules" /\ Succeeded /\ last.args.isRegex
    /\ \E u \in UnitSet(lastBundle.modules) :
          /\ [id |-> u.id, path |-> u.path] \in SeqSet(last.out.value)
          /\ ~Includes(Raw(u.code), last.args.query)
    /\ Handles \ MatchingHandles # {}

----------------------------------------------------------------------------
(* C9 *)

\* C9: with isRegex true and a query that does not compile, searchModules on
\* a live snapshot fails with InvalidPattern naming the query, before any
\* unit is tested and without a result, whatever the snapshot holds.
C9_InvalidPatternBeforeAnyTest ==
    (last.op = "searchModules" /\ lastBundle.live
      /\ last.args.isRegex /\ ~RegexCompiles(last.args.query)) =>
        /\ last.out = [kind |-> "InvalidPattern", value |-> last.args.query]
        /\ last.ext.tested = 0

\* a pattern that does not compile, on a snapshot a unit of which holds the
\* query as a literal
C9_Witness ==
    /\ last.op = "searchModules" /\ lastBundle.live
    /\ last.args.isRegex /\ last.args.query = <<"a", "(">>
    /\ \E u \in UnitSet(lastBundle.modules) : Includes(Raw(u.code), last.args.query)
    /\ last.out.kind = "InvalidPattern"

----------------------------------------------------------------------------
(* C10 *)

Min(a, b) == IF a <= b THEN a ELSE b

\* C10 as stated: for every limit a successful searchModules returns the
\* prefix of length min(limit, number of matches) of the ordered list of
\* matching units (no entry for a limit below one) and never more than limit
\* entries.
C10_ResultIsPrefixOfLimit ==
    (last.op = "searchModules" /\ Succeeded) =>
        LET full == SearchResults(lastBundle.modules, last.args.query, last.args.isRegex)
        IN  /\ last.out.value = SubSeq(full, 1, Min(last.args.limit, Len(full)))
            /\ Len(last.out.value) > 0 => Len(last.out.value) <= last.args.limit

----------------------------------------------------------------------------
(* C11 *)

\* the units of the live snapshot the classifier labels non-vendor, in
\* snapshot iteration order
NonVendorUnits ==
    SelectSeq(lastBundle.modules, LAMBDA u : ~IsVendorModule(u.path))

\* entry e of a listing describes unit u
Lists(e, u) ==
    /\ e.id = u.id /\ e.path = u.path
    /\ e.isVendor = IsVendorModule(u.path)

\* C11: listModules(excludeVendor=false) returns one entry per unit in
\* snapshot iteration order; listModules(excludeVendor=true) returns one entry
\* for each unit the classifier labels non-vendor and nothing else, in the same
\* relative order; in both each entry's isVendor flag is classify(path).
C11_ListingIsNonVendorSubsequence ==
    (last.op = "listModules" /\ Succeeded) =>
        LET listed == last.out.value
            units == IF last.args.excludeVendor THEN NonVendorUnits
                     ELSE lastBundle.modules
        IN  /\ Len(listed) = Len(units)
            /\ \A i \in 1..Len(units) : Lists(listed[i], units[i])
            /\ last.args.excludeVendor =>
                  \A i \in 1..Len(listed) : ~listed[i].isVendor

\* a vendor unit left out of a listing that keeps the unit after it
C11_Witness ==
    /\ last.op = "listModules" /\ Succeeded /\ last.args.excludeVendor
    /\ Len(lastBundle.modules) >= 2
    /\ IsVendorModule(lastBundle.modules[1].path)
    /\ Len(last.out.value) = Len(lastBundle.modules) - 1
    /\ last.out.value[1].id = lastBundle.modules[2].id

----------------------------------------------------------------------------
(* C12 *)

\* the eight literal substrings
VendorWords ==
    { <<"node_modules">>, <<"webpack", "/", "runtime">>,
      <<"webpack", "/", "bootstrap">>, <<"(webpack)">>, <<"vendor", "/">>,
      <<"bower_components">>, <<"jspm_packages">>, <<"shims", "/">> }

\* the path with every backslash turned into a forward slash
Slashed(path) == [i \in 1..Len(path) |-> IF path[i] = "\\" THEN "/" ELSE path[i]]

\* word w occurs in path p as a contiguous piece
Occurs(p, w) ==
    \E i \in 1..(Len(p) - Len(w) + 1) : SubSeq(p, i, i + Len(w) - 1) = w

ContainsVendorWord(path) ==
    /\ path # <<>>
    /\ \E w \in VendorWords : Occurs(Slashed(path), w)

\* C12: the classifier is true of a path iff the path, its backslashes
\* turned into forward slashes, contains one of the eight literal substrings;
\* the match is case-sensitive and the empty path is not vendor.  Observed
\* through the isVendor flag and the filter of listModules.
C12_VendorIffPatternInPath ==
    (last.op = "listModules" /\ Succeeded) =>
        /\ \A i \in 1..Len(last.out.value) :
              last.out.value[i].isVendor <=> ContainsVendorWord(last.out.value[i].path)
        /\ \A u \in UnitSet(lastBundle.modules) :
              /\ u.path = <<>> => [id |-> u.id, path |-> u.path] \in
                                     {[id |-> e.id, path |-> e.path] : e \in SeqSet(last.out.value)}
              /\ u.path = <<"Vendor", "/">> =>
                    \E e \in SeqSet(last.out.value) : e.id = u.id /\ ~e.isVendor
              /\ (last.args.excludeVendor /\ ContainsVendorWord(u.path)) =>
                    \A e \in SeqSet(last.out.value) : e.id # u.id

\* a path that holds a pattern only once its backslash is normalised
C12_Witness ==
    /\ last.op = "listModules" /\ Succeeded /\ ~last.args.excludeVendor
    /\ last.out.value[1].path = <<"webpack", "\\", "runtime">>
    /\ last.out.value[1].isVendor

----------------------------------------------------------------------------
(* C13 *)

\* entries of a tree in the order their nodes start in the text
RECURSIVE InStartOrder(_)
InStartOrder(es) ==
    IF es = {} THEN <<>>
    ELSE LET first == CHOOSE e \in es : \A f \in es : e.node.start <= f.node.start
         IN  <<first>> \o InStartOrder(es \ {first})

\* the descriptors of one unit, in pre-order of its tree
UnitList(m) ==
    IF ~Parses(m.code) THEN <<>>
    ELSE LET found == InStartOrder({e \in SeqSet(PreOrder(Parse(m.code).nodes, <<>>)) :
                                        Described(e)})
         IN  [i \in 1..Len(found) |-> Descriptor(m, found[i].node)]

\* the full list: every scanned unit in order, none left out
RECURSIVE FullList(_)
FullList(units) ==
    IF units = <<>> THEN <<>> ELSE UnitList(Head(units)) \o FullList(Tail(units))

\* the units a listFunctions call scans: the named one, or the snapshot in
\* its iteration order
ScannedUnits(moduleId) ==
    IF Given(moduleId)
    THEN SelectSeq(lastBundle.modules, LAMBDA m : m.id = moduleId)
    ELSE lastBundle.modules

\* C13: a successful listFunctions returns the first min(limit, n)
\* descriptors of the full list of length n made of the scanned units in
\* snapshot order, each unit's descriptors in pre-order; the early stop of
\* the unit loop does not show in the result; with a moduleId only that unit
\* is scanned.
C13_FirstOfFullList ==
    (last.op = "listFunctions" /\ Succeeded) =>
        LET full == FullList(ScannedUnits(last.args.moduleId))
        IN  last.out.value = SubSeq(full, 1, Min(last.args.limit, Len(full)))

\* a scan of two units with descriptors that the limit cut inside the first
\* unit, so that the loop stopped before the second
C13_Witness ==
    /\ last.op = "listFunctions" /\ Succeeded /\ ~Given(last.args.moduleId)
    /\ Len(lastBundle.modules) = 2
    /\ Len(UnitList(lastBundle.modules[1])) > last.args.limit
    /\ Len(UnitList(lastBundle.modules[2])) > 0
    /\ last.args.limit = 2 /\ Len(last.out.value) = 2

----------------------------------------------------------------------------
(* C14 *)

\* the three shapes: a named function declaration, a named class
\* declaration, a declarator of an identifier initialised to a function or an
\* arrow expression
NamedFunction(n) == n.type = "FunctionDeclaration" /\ n.name # ""

NamedClass(n) == n.type = "ClassDeclaration" /\ n.name # ""

BoundFunction(n) ==
    /\ n.type = "VariableDeclarator" /\ n.name \in Identifiers
    /\ n.init \in {"FunctionExpression", "ArrowFunctionExpression"}

\* the type a descriptor gives a node of one of the three shapes
ShapeType(n) ==
    IF NamedFunction(n) THEN "function"
    ELSE IF NamedClass(n) THEN "class"
    ELSE "variable_function"

\* the nodes of the three shapes of one unit, in pre-order, each with its unit
ShapedOf(m) ==
    IF ~Parses(m.code) THEN <<>>
    ELSE LET found == InStartOrder({e \in SeqSet(PreOrder(Parse(m.code).nodes, <<>>)) :
                                        \/ NamedFunction(e.node)
                                        \/ NamedClass(e.node)
                                        \/ BoundFunction(e.node)})
         IN  [i \in 1..Len(found) |-> [unit |-> m, node |-> found[i].node]]

RECURSIVE ShapedAll(_)
ShapedAll(units) ==
    IF units = <<>> THEN <<>> ELSE ShapedOf(Head(units)) \o ShapedAll(Tail(units))

----------------------------------------------------------------------------
(* C15 *)

\* the rendering of a declared parameter: what it binds is an identifier
\* (plain, with a default value, or the rest) or a destructuring pattern
Rendered(p) ==
    IF ~p.ident THEN <<"{destructured}">>
    ELSE CASE p.kind = "Identifier" -> <<p.name>>
           [] p.kind = "AssignmentPattern" -> <<p.name>> \o <<"?">>
           [] p.kind = "RestElement" -> <<"...">> \o <<p.name>>

\* strings joined by ", "
CommaSeparated(strings) ==
    Concat([i \in 1..Len(strings) |->
               IF i = 1 THEN strings[i] ELSE <<", ">> \o strings[i]])

----------------------------------------------------------------------------
(* C16 *)

\* the unit of the live snapshot under this id has a text that fails to parse
FailsToParse(id) ==
    /\ Has(lastBundle.modules, id)
    /\ ~Parses(Get(lastBundle.modules, id).code)

\* the snapshot with the text of every failing unit taken away: such a unit
\* has nothing to scan
Blanked(cache) ==
    [cache EXCEPT !.modules =
        [i \in 1..Len(cache.modules) |->
            IF Parses(cache.modules[i].code) THEN cache.modules[i]
            ELSE [cache.modules[i] EXCEPT !.code = EmptyText]]]

\* C16: a unit whose text fails to parse raises no error in listFunctions or
\* in either phase of getCallGraph and adds no entry, and the result is the
\* one the other units give without it.
C16_FailingUnitAddsNothing ==
    /\ (last.op = "listFunctions" /\ lastBundle.live
        /\ (Given(last.args.moduleId) => Has(lastBundle.modules, last.args.moduleId))) =>
            /\ Succeeded
            /\ FailsToParse(last.args.moduleId) /\ Given(last.args.moduleId) =>
                  last.out.value = <<>>
            /\ last.out = ListFunctionsCall(Blanked(lastBundle), last.args.moduleId,
                                            last.args.limit)
    /\ (last.op = "getCallGraph" /\ lastBundle.live
        /\ Has(lastBundle.modules, last.args.moduleId)) =>
            /\ Succeeded
            /\ FailsToParse(last.args.moduleId) =>
                  /\ last.out.value.outgoing = <<>>
                  /\ \A i \in 1..Len(last.out.value.incoming) :
                        last.out.value.incoming[i].callerModuleId # last.args.moduleId
            /\ \A i \in 1..Len(last.out.value.incoming) :
                  ~FailsToParse(last.out.value.incoming[i].callerModuleId)
            /\ last.out = GetCallGraphCall(Blanked(lastBundle), last.args.symbolName,
                                           last.args.moduleId, last.args.scanAllModules)

\* every unit was scanned for the callers of a; the text of the entry unit
\* names a and fails to parse, and the target unit gave its edges
C16_Witness ==
    /\ last.op = "getCallGraph" /\ Succeeded /\ last.args.scanAllModules
    /\ last.args.symbolName = "a" /\ last.args.moduleId = "1"
    /\ Get(lastBundle.modules, EntryId).code = BrokenText
    /\ Get(lastBundle.modules, "1").code = CallersText
    /\ Len(last.out.value.incoming) = 3

----------------------------------------------------------------------------
(* C17 *)

\* a declaration matching symbolName: a named function declaration, a
\* declarator initialised to a function or an arrow, a class declaration
Declares(n, symbolName) ==
    /\ n.name = symbolName
    /\ \/ n.type \in {"FunctionDeclaration", "ClassDeclaration"}
       \/ n.type = "VariableDeclarator"
          /\ n.init \in {"FunctionExpression", "ArrowFunctionExpression"}

\* the matching declarations of a tree in pre-order
Declarations(nodes, symbolName) ==
    InStartOrder({e \in SeqSet(PreOrder(nodes, <<>>)) : Declares(e.node, symbolName)})

\* the edges of the call expressions inside one declaration, in pre-order
EdgesInside(nodes, d) ==
    LET calls == InStartOrder({e \in SeqSet(PreOrder(nodes, <<>>)) :
                                  /\ e.node.type = "CallExpression"
                                  /\ d.start < e.node.start /\ e.node.end < d.end
                                  /\ CalleeName(e.node.callee) # <<>>})
    IN  [i \in 1..Len(calls) |-> [name |-> CalleeName(calls[i].node.callee),
                                  line |-> calls[i].node.line]]

\* C17 as stated: the outgoing edges of a successful getCallGraph are those
\* of the call expressions inside the first declaration, in pre-order of the
\* target unit's tree, that matches symbolName, and no others; without a
\* matching declaration the list is empty.
C17_OutgoingFromFirstDeclarationOnly ==
    (last.op = "getCallGraph" /\ Succeeded
     /\ Parses(Get(lastBundle.modules, last.args.moduleId).code)) =>
        LET nodes == Parse(Get(lastBundle.modules, last.args.moduleId).code).nodes
            found == Declarations(nodes, last.args.symbolName)
        IN  last.out.value.outgoing =
                IF found = <<>> THEN <<>>
                ELSE Dedup(EdgesInside(nodes, found[1].node))

----------------------------------------------------------------------------
(* C18 *)

\* the name the text of a callee stands for, <<>> for none: x for the
\* identifier x, x.y for the property y of the identifier x, .y for the
\* property y of anything else, nothing for any other callee
NamedAs(text) ==
    IF Len(text) = 1 /\ text[1] \in Identifiers THEN text
    ELSE IF Len(text) >= 3 /\ text[Len(text) - 1] = "." /\ text[Len(text)] \in Identifiers
    THEN IF Len(text) = 3 /\ text[1] \in Identifiers THEN text
         ELSE <<".", text[Len(text)]>>
    ELSE <<>>

\* the texts of the callees of the call expressions inside one declaration,
\* in pre-order
CalleesInside(nodes, d) ==
    LET calls == InStartOrder({e \in SeqSet(PreOrder(nodes, <<>>)) :
                                  /\ e.node.type = "CallExpression"
                                  /\ d.start < e.node.start /\ e.node.end < d.end})
    IN  [i \in 1..Len(calls) |-> calls[i].node.callee.text]

\* C18: every call expression inside the target declaration whose callee is
\* an identifier or a member expression with an identifier property has an
\* outgoing edge under the name of that callee, and a call with a callee of
\* any other shape has none: when one declaration matches, the names of the
\* outgoing edges are the names of these callees.
C18_OutgoingEdgeNames ==
    (last.op = "getCallGraph" /\ Succeeded
     /\ Parses(Get(lastBundle.modules, last.args.moduleId).code)) =>
        LET nodes == Parse(Get(lastBundle.modules, last.args.moduleId).code).nodes
            found == Declarations(nodes, last.args.symbolName)
            outgoing == last.out.value.outgoing
        IN  found # <<>> =>
                LET callees == CalleesInside(nodes, found[1].node)
                    names == SelectSeq([i \in 1..Len(callees) |-> NamedAs(callees[i])],
                                       LAMBDA name : name # <<>>)
                IN  /\ \A i \in 1..Len(names) :
                          \E j \in 1..Len(outgoing) : outgoing[j].name = names[i]
                    /\ Len(found) = 1 =>
                          /\ {outgoing[j].name : j \in 1..Len(outgoing)} = SeqSet(names)
                          /\ Len(outgoing) <= Len(names)

\* the calls A(), A.b(), this.b(), A.b.a() and A[0]() inside function a gave
\* the edges A, A.b, .b and .a
C18_Witness ==
    /\ last.op = "getCallGraph" /\ Succeeded
    /\ last.args.symbolName = "a" /\ last.args.moduleId = "1"
    /\ Get(lastBundle.modules, "1").code = CalleesText
    /\ [j \in 1..Len(last.out.value.outgoing) |-> last.out.value.outgoing[j].name]
          = << <<"A">>, <<"A", ".", "b">>, <<".", "b">>, <<".", "a">> >>

----------------------------------------------------------------------------
(* C19 *)

\* the text of a callee is the identifier symbolName or ends in the
\* property symbolName
CallsByText(text, symbolName) ==
    \/ text = <<symbolName>>
    \/ Len(text) >= 3 /\ text[Len(text) - 1] = "." /\ text[Len(text)] = symbolName

\* the call sites of symbolName in one unit; none when its text fails to parse
Sites(u, symbolName) ==
    IF ~Parses(u.code) THEN {}
    ELSE {e \in SeqSet(PreOrder(Parse(u.code).nodes, <<>>)) :
             /\ e.node.type = "CallExpression"
             /\ CallsByText(e.node.callee.text, symbolName)}

\* the candidate units of a getCallGraph call
Candidates(symbolName, moduleId, scanAllModules) ==
    IF scanAllModules
    THEN {u \in UnitSet(lastBundle.modules) : Includes(Raw(u.code), <<symbolName>>)}
    ELSE {u \in UnitSet(lastBundle.modules) : u.id = moduleId}

\* the incoming edges that name a unit as the caller's
EdgesFrom(incoming, id) == {j \in 1..Len(incoming) : incoming[j].callerModuleId = id}

\* C19: the incoming list of a successful getCallGraph has an edge from a
\* unit iff the unit is a candidate and holds a call site whose callee is the
\* identifier symbolName or a member expression with the property symbolName,
\* and no more edges from it than it has such call sites; the candidates are
\* the units whose raw text contains symbolName when scanAllModules is set and
\* the target unit alone otherwise, so that every edge then names the
\* requested unit.
C19_IncomingFromCandidateCallSites ==
    (last.op = "getCallGraph" /\ Succeeded) =>
        LET incoming == last.out.value.incoming
            candidates == Candidates(last.args.symbolName, last.args.moduleId,
                                     last.args.scanAllModules)
        IN  /\ \A u \in UnitSet(lastBundle.modules) :
                  LET sites == IF u \in candidates
                               THEN Sites(u, last.args.symbolName) ELSE {}
                  IN  /\ (EdgesFrom(incoming, u.id) # {}) <=> (sites # {})
                      /\ Cardinality(EdgesFrom(incoming, u.id)) <= Cardinality(sites)
            /\ \A j \in 1..Len(incoming) :
                  \E u \in candidates : u.id = incoming[j].callerModuleId
            /\ ~last.args.scanAllModules =>
                  \A j \in 1..Len(incoming) :
                      incoming[j].callerModuleId = last.args.moduleId

\* every unit was scanned for the callers of a: the target unit and the
\* entry unit both call it and both are named by edges
C19_Witness ==
    /\ last.op = "getCallGraph" /\ Succeeded /\ last.args.scanAllModules
    /\ last.args.symbolName = "a" /\ last.args.moduleId = "1"
    /\ EdgesFrom(last.out.value.incoming, "1") # {}
    /\ EdgesFrom(last.out.value.incoming, EntryId) # {}
    /\ Get(lastBundle.modules, EntryId).code = CalleesText

----------------------------------------------------------------------------
(* C20 *)

\* an enclosing node that is a function: a function declaration, a method
\* of a class or of an object, a function or arrow expression bound by a
\* declarator or passed to a call
Encloses(a) ==
    \/ a.type \in {"FunctionDeclaration", "ClassMethod", "ObjectMethod"}
    \/ a.type \in {"VariableDeclarator", "CallExpression"}
       /\ a.init \in {"FunctionExpression", "ArrowFunctionExpression"}

\* the nearest enclosing function, looking from the innermost ancestor
\* outwards, as a sequence of at most one
RECURSIVE EnclosingFunction(_)
EnclosingFunction(ancestors) ==
    IF ancestors = <<>> THEN <<>>
    ELSE IF Encloses(ancestors[Len(ancestors)]) THEN <<ancestors[Len(ancestors)]>>
    ELSE EnclosingFunction(SubSeq(ancestors, 1, Len(ancestors) - 1))

\* the functions that have a name of their own: a named function
\* declaration, a function or arrow bound to a variable, a class method
HasOwnName(f) ==
    /\ f # <<>>
    /\ f[1].name # ""
    /\ \/ f[1].type \in {"FunctionDeclaration", "ClassMethod"}
       \/ f[1].type = "VariableDeclarator"
          /\ f[1].init \in {"FunctionExpression", "ArrowFunctionExpression"}

\* C20: a matching call site whose nearest enclosing function has a name of
\* its own has an incoming edge under that name, and every incoming edge
\* from a unit is named after the nearest enclosing function of a matching
\* call site of the unit (or by a placeholder when that has no name of its
\* own); the name of a function further out is not used.
C20_CallerIsNearestFunction ==
    (last.op = "getCallGraph" /\ Succeeded) =>
        LET incoming == last.out.value.incoming
            candidates == Candidates(last.args.symbolName, last.args.moduleId,
                                     last.args.scanAllModules)
        IN  \A u \in candidates :
                /\ \A e \in Sites(u, last.args.symbolName) :
                      HasOwnName(EnclosingFunction(e.ancestors)) =>
                          \E j \in EdgesFrom(incoming, u.id) :
                              incoming[j].callerName =
                                  EnclosingFunction(e.ancestors)[1].name
                /\ \A j \in EdgesFrom(incoming, u.id) :
                      \E e \in Sites(u, last.args.symbolName) :
                          IF HasOwnName(EnclosingFunction(e.ancestors))
                          THEN incoming[j].callerName =
                                   EnclosingFunction(e.ancestors)[1].name
                          ELSE incoming[j].callerName
                                   \in {"(top-level)", "(anonymous function)"}

\* a is called from the arrow bound to b and from the function a, both
\* nested in function A, and at top level: the callers are b, a and
\* (top-level), never A
C20_Witness ==
    /\ last.op = "getCallGraph" /\ Succeeded /\ ~last.args.scanAllModules
    /\ last.args.symbolName = "a" /\ last.args.moduleId = "1"
    /\ Get(lastBundle.modules, "1").code = CallersText
    /\ {last.out.value.incoming[j].callerName : j \in 1..Len(last.out.value.incoming)}
          = {"b", "a", "(top-level)"}

----------------------------------------------------------------------------
(* C21 *)

\* C21 as stated: an incoming edge from a unit is named "(top-level)" only
\* when a matching call site of the unit has no enclosing function at all,
\* and a matching call site whose nearest enclosing function has no name of
\* its own (an object method, a callback, a function declaration without a
\* name) gives an edge named "(anonymous function)".
C21_PlaceholderNames ==
    (last.op = "getCallGraph" /\ Succeeded) =>
        LET incoming == last.out.value.incoming
            candidates == Candidates(last.args.symbolName, last.args.moduleId,
                                     last.args.scanAllModules)
        IN  \A u \in candidates :
                /\ \A j \in EdgesFrom(incoming, u.id) :
                      incoming[j].callerName = "(top-level)" =>
                          \E e \in Sites(u, last.args.symbolName) :
                              EnclosingFunction(e.ancestors) = <<>>
                /\ \A e \in Sites(u, last.args.symbolName) :
                      (/\ EnclosingFunction(e.ancestors) # <<>>
                       /\ ~HasOwnName(EnclosingFunction(e.ancestors))) =>
                          \E j \in EdgesFrom(incoming, u.id) :
                              incoming[j].callerName = "(anonymous function)"

----------------------------------------------------------------------------
(* C22 *)

\* no two entries of a list are equal
NoTwoEqual(edges) ==
    \A i, j \in 1..Len(edges) : edges[i] = edges[j] => i = j

\* the outgoing edges the traversal of the target unit discovers
DiscoveredOutgoing(symbolName, moduleId) ==
    IF ~Parses(Get(lastBundle.modules, moduleId).code) THEN {}
    ELSE SeqSet(Outgoing(Parse(Get(lastBundle.modules, moduleId).code).nodes,
                         symbolName))

\* the incoming edges the scan of the candidate units discovers
DiscoveredIncoming(symbolName, moduleId, scanAllModules) ==
    UNION {{[callerModuleId |-> u.id, callerName |-> CallerName(e),
             line |-> e.node.line] : e \in Sites(u, symbolName)} :
              u \in Candidates(symbolName, moduleId, scanAllModules)}

\* C22: neither list of a getCallGraph result holds two equal edges, and
\* each holds exactly the edges that were discovered: an edge that differs
\* from every other in some field, the line included, is kept, and no edge
\* is added.
C22_ListsHoldTheDistinctEdges ==
    (last.op = "getCallGraph" /\ Succeeded) =>
        /\ NoTwoEqual(last.out.value.outgoing)
        /\ NoTwoEqual(last.out.value.incoming)
        /\ SeqSet(last.out.value.outgoing)
              = DiscoveredOutgoing(last.args.symbolName, last.args.moduleId)
        /\ SeqSet(last.out.value.incoming)
              = DiscoveredIncoming(last.args.symbolName, last.args.moduleId,
                                   last.args.scanAllModules)

\* function a calls A twice on line 1 and once on line 2: two edges
C22_Witness ==
    /\ last.op = "getCallGraph" /\ Succeeded
    /\ last.args.symbolName = "a" /\ last.args.moduleId = "1"
    /\ Get(lastBundle.modules, "1").code = LinesText
    /\ last.out.value.outgoing
          = << [name |-> <<"A">>, line |-> 1], [name |-> <<"A">>, line |-> 2] >>

----------------------------------------------------------------------------
(* C23 *)

\* a getSymbolSource call that got as far as searching the parsed text
Searched ==
    /\ last.op = "getSymbolSource"
    /\ last.out.kind \notin {"ReadFailure", "NoBundle", "UnitNotFound",
                             "MissingInput", "ParseFailure"}

\* the text a getSymbolSource call searched
SearchedText ==
    IF Given(last.args.moduleId) THEN Get(lastBundle.modules, last.args.moduleId).code
    ELSE IF last.args.file.path # "" THEN last.args.file.text
    ELSE last.args.code

\* a node that declares symbolName: a function declaration or a class
\* declaration of that name, a declarator that binds that identifier
Locates(n, symbolName) ==
    /\ n.type \in {"FunctionDeclaration", "ClassDeclaration", "VariableDeclarator"}
    /\ n.name = symbolName

\* the nodes of a text that declare symbolName, in pre-order
Located(code, symbolName) ==
    InStartOrder({e \in SeqSet(PreOrder(Parse(code).nodes, <<>>)) :
                     Locates(e.node, symbolName)})

\* the source of a declaration: its own chunks, and for a declarator the
\* declaration statement made of the keyword, the declarator and the
\* semicolon
SourceOf(code, n) ==
    IF n.type = "VariableDeclarator"
    THEN <<"const ">> \o SubSeq(code, n.start, n.end) \o <<";">>
    ELSE SubSeq(code, n.start, n.end)

\* C23 as stated: a getSymbolSource call that finds the symbol returns the
\* formatted source of the first node in pre-order that declares it; for a
\* declarator that is its declaration statement with the keyword, and the
\* text of no other declaration is part of it.
C23_SourceOfFirstDeclaration ==
    (Searched /\ last.out.kind # "SymbolNotFound") =>
        LET found == Located(SearchedText, last.args.symbolName)
        IN  /\ found # <<>>
            /\ last.out = FormatJS(SourceOf(SearchedText, found[1].node))

----------------------------------------------------------------------------
(* C24 *)

\* C24: a getSymbolSource call that searched a parsed text fails with
\* SymbolNotFound, naming the symbol, iff no node of the text is a function
\* declaration, a class declaration or a declarator of an identifier with
\* that name; a name bound through a pattern only is not found.
C24_SymbolNotFoundIffNoDeclaration ==
    Searched =>
        /\ (last.out.kind = "SymbolNotFound")
              <=> (Located(SearchedText, last.args.symbolName) = <<>>)
        /\ last.out.kind = "SymbolNotFound" => last.out.value = last.args.symbolName

\* a is bound by const {a} = 1 and by nothing else: it is not found
C24_Witness ==
    /\ Searched /\ last.args.symbolName = "a" /\ last.args.moduleId = "1"
    /\ Get(lastBundle.modules, "1").code = DeclsText
    /\ last.out = [kind |-> "SymbolNotFound", value |-> "a"]

----------------------------------------------------------------------------
(* C25 *)

\* the tools that take their text inline or from a file
InputOps == {"deobfuscate", "analyzeStructure", "formatCode", "getSymbolSource"}

\* the call named no inline text, no file path and, for getSymbolSource, no
\* module id
NothingGiven ==
    /\ last.args.code = EmptyText
    /\ last.args.file.path = ""
    /\ last.op = "getSymbolSource" => ~Given(last.args.moduleId)

\* C25 as stated: deobfuscate, analyzeStructure, formatCode and
\* getSymbolSource fail with MissingInput, and not with ParseFailure, when
\* they are given neither inline text nor a file path (nor a module id, for
\* getSymbolSource), and in no other case; the cache is then unchanged.
C25_MissingInputIffNothingGiven ==
    [][(last'.op \in InputOps /\ last.op = "idle") =>
          /\ NothingGiven' <=> (last'.out.kind = "MissingInput")
          /\ last'.out.kind = "MissingInput" => lastBundle' = lastBundle]_vars


----------------------------------------------------------------------------
(* C26 *)

VendorUnits(wc) == {i \in 1..Len(wc.modules) : IsVendorModule(wc.modules[i].path)}

SameListing(cache) == ListModulesCall(cache, FALSE) = ListModulesCall(cache, TRUE)

SkippedVendor ==
    /\ last.op = "deobfuscate"
    /\ last.out.kind = "ok"
    /\ last.args.skipVendor
    /\ last.ext.result.hasBundle

\* C26: after a successful deobfuscate with skipVendor = true whose unpack
\* result carries a bundle, no cached unit has a vendor path, every non-vendor
\* unit of the unpack result is cached, the reported removed count is the
\* number of vendor units of the unpack result, and listModules gives the same
\* list with and without excludeVendor; no call other than deobfuscate ends
\* that equality.
C26_SkipVendorLeavesNoVendorUnit ==
    [][/\ (SkippedVendor' /\ last = Idle) =>
             LET wc == last'.ext.result
                 modules == lastBundle'.modules
             IN  /\ lastBundle'.live
                 /\ \A i \in 1..Len(modules) : ~IsVendorModule(modules[i].path)
                 /\ \A i \in 1..Len(wc.modules) :
                       i \notin VendorUnits(wc) =>
                           \E j \in 1..Len(modules) : modules[j] = wc.modules[i]
                 /\ ~last'.args.returnCode =>
                       last'.out.value.removedCount = Cardinality(VendorUnits(wc))
                 /\ SameListing(lastBundle')
       /\ (last'.op # "deobfuscate" /\ SameListing(lastBundle)) =>
             SameListing(lastBundle')]_vars

\* a vendor unit of the unpack result has been dropped and counted
C26_Witness ==
    /\ SkippedVendor
    /\ ~last.args.returnCode
    /\ VendorUnits(last.ext.result) # {}
    /\ last.out.value.removedCount = Cardinality(VendorUnits(last.ext.result))
    /\ \A i \in 1..Len(lastBundle.modules) : ~IsVendorModule(lastBundle.modules[i].path)

----------------------------------------------------------------------------
(* C27 *)

SnapshotOps == {"listModules", "searchModules", "listFunctions", "getCallGraph"}

\* the complete unit set of one call that has its unpack result
SnapshotOf(call) ==
    [live |-> TRUE, modules |-> BuildModules(call.result, call.skipVendor)]

\* what the cache may be: empty, or the snapshot of one call
Snapshots(calls) ==
    {NoBundle} \cup {SnapshotOf(calls[c]) : c \in {d \in CallIds : HasInstalled(calls[d])}}

\* what the query answered on snapshot S would return
AnswerOn(S, call) ==
    CASE call.op = "listModules" -> ListModulesCall(S, call.args.excludeVendor)
      [] call.op = "searchModules" ->
            SearchModulesCall(S, call.args.query, call.args.isRegex, call.args.limit).out
      [] call.op = "listFunctions" ->
            ListFunctionsCall(S, call.args.moduleId, call.args.limit)
      [] call.op = "getCallGraph" ->
            GetCallGraphCall(S, call.args.symbolName, call.args.moduleId,
                             call.args.scanAllModules)

\* C27: however the steps of the deobfuscate calls in flight interleave at
\* their awaits (file read, unpack, pretty-print) with each other and with
\* queries, the cache is always empty or the complete unit set of one
\* deobfuscate call, and every listModules, searchModules, listFunctions or
\* getCallGraph call returns what it returns on one such snapshot.
C27_CacheIsOneSnapshot ==
    [][/\ lastBundle \in Snapshots(inflight)
       /\ lastBundle' \in Snapshots(inflight')
       /\ (last = Idle /\ last'.op \in SnapshotOps) =>
             \E S \in Snapshots(inflight) : last'.out = AnswerOn(S, last')]_vars

\* a query has been answered on the snapshot of one call while another call,
\* which installed a different snapshot before, is still suspended in formatJS
C27_Witness ==
    \E c, d \in CallIds :
        /\ c # d
        /\ inflight[c].pc = "formatJS"
        /\ HasInstalled(inflight[d])
        /\ SnapshotOf(inflight[c]) # SnapshotOf(inflight[d])
        /\ lastBundle = SnapshotOf(inflight[d])
        /\ last.op = "listModules"
        /\ last.out.kind = "ok"
        /\ Len(last.out.value) = Len(lastBundle.modules)

----------------------------------------------------------------------------
(* C28 *)

\* C28: whenever a deobfuscate call ends in an error (missing input, file
\* read failure, unpack failure, or failure of the pretty-printer on the
\* code to return), the cache is exactly as it was before the call.
C28_FailedDeobfuscateKeepsCache ==
    [][(last = Idle /\ last'.op = "deobfuscate" /\ last'.out.kind # "ok") =>
          lastBundle' = lastBundle]_vars

----------------------------------------------------------------------------
(* C29 *)

\* the descriptors listFunctions returns for unit id of the live snapshot
\* when the limit does not cut the list
Inventory(id) ==
    ListFunctionsCall(lastBundle, id, Len(Get(lastBundle.modules, id).code)).value

InventoryNames(id) == {Inventory(id)[i].name : i \in 1..Len(Inventory(id))}

\* a getSymbolSource call for a name the inventory of the named unit holds
LocatesListed ==
    /\ last.op = "getSymbolSource"
    /\ Given(last.args.moduleId)
    /\ lastBundle.live /\ Has(lastBundle.modules, last.args.moduleId)
    /\ Parses(Get(lastBundle.modules, last.args.moduleId).code)
    /\ last.args.symbolName \in InventoryNames(last.args.moduleId)

\* C29: on a live snapshot, for a unit u that parses and the name of any
\* descriptor listFunctions(moduleId = u) returns, getSymbolSource(name,
\* moduleId = u) does not fail with SymbolNotFound.
C29_ListedSymbolsAreLocated ==
    LocatesListed => last.out.kind # "SymbolNotFound"

\* the source of a listed variable-bound function has been returned
C29_Witness ==
    /\ LocatesListed
    /\ last.out.kind = "ok"
    /\ \E i \in 1..Len(Inventory(last.args.moduleId)) :
          /\ Inventory(last.args.moduleId)[i].name = last.args.symbolName
          /\ Inventory(last.args.moduleId)[i].type = "variable_function"

----------------------------------------------------------------------------
(* C30 *)

\* the answer to the same getCallGraph call with the other scan mode
OtherMode ==
    GetCallGraphCall(lastBundle, last.args.symbolName, last.args.moduleId,
                     ~last.args.scanAllModules)

\* the answers of the two modes: of the scan of all modules, of the scan of
\* the target module only
WideGraph == IF last.args.scanAllModules THEN last.out.value ELSE OtherMode.value
NarrowGraph == IF last.args.scanAllModules THEN OtherMode.value ELSE last.out.value

\* C30: for every snapshot, symbol and unit id, the incoming edges getCallGraph
\* returns with scanAllModules = true include every incoming edge it returns
\* with scanAllModules = false, and the outgoing list is the same in both modes.
C30_ScanAllLosesNoEdge ==
    (last.op = "getCallGraph" /\ last.out.kind = "ok") =>
        /\ OtherMode.kind = "ok"
        /\ SeqSet(NarrowGraph.incoming) \subseteq SeqSet(WideGraph.incoming)
        /\ WideGraph.outgoing = NarrowGraph.outgoing

\* a scan of all modules has returned the edges of the target module and
\* edges of another module besides
C30_Witness ==
    /\ last.op = "getCallGraph" /\ last.out.kind = "ok"
    /\ last.args.scanAllModules
    /\ NarrowGraph.incoming # <<>>
    /\ NarrowGraph.outgoing # <<>>
    /\ SeqSet(NarrowGraph.incoming) # SeqSet(last.out.value.incoming)
====
